---- MODULE Spec2Model ----
(***************************************************************************)
(* Verification model of the rmtt_base flight platform.                    *)
(*                                                                         *)
(*   SpecMgr    controllers/controller_manager.py and its controllers      *)
(*   SpecCtl    controllers/base_controller.py, one controller's life      *)
(*   SpecFlight core/tello_controller.py + core/connection.py +            *)
(*              utils/safety.py                                            *)
(*   SpecDemo   controllers/example_usage.py driving the manager's loop    *)
(*   SpecRec    data/flight_data_recorder.py                               *)
(*   SpecLand   controllers/landing_experiment and hx_exp_1_landing        *)
(*   SpecAlt    experiments/altitude_experiment.py + experiment_config.py  *)
(*   SpecCli    main.py, the interactive commander                         *)
(*   SpecGate   utils/safety.py, check_flight_safety as a function         *)
(*   SpecCompute  compute_control of the attitude and position controllers *)
(*   SpecCommand  base_controller.py, ControlCommand                       *)
(*   SpecSensor update_sensor_data next to the control loop                *)
(*   SpecSession  stop_recording next to the recorder's worker thread      *)
(*                                                                         *)
(* Each specification leaves the other parts' variables unchanged.         *)
(***************************************************************************)
EXTENDS Integers, Sequences, FiniteSets, TLC

\* ------------------------------------------------------------------------
\* Bounds of the model
\* ------------------------------------------------------------------------
MaxElapsed == 2

MaxThreads == 2

\* config/settings.py
ENABLE_SAFETY_CHECKS == TRUE
AUTO_LAND_ON_CONNECTION_LOST == TRUE
BATTERY_CRITICAL_THRESHOLD == 10
SPEED_LIMIT == 100
FLIGHT_ALTITUDE_LIMIT == 50

\* ------------------------------------------------------------------------
\* base_controller.py : ControllerState, controller instances
\* ------------------------------------------------------------------------
INACTIVE == "inactive"
ACTIVE == "active"
ERROR == "error"
EMERGENCY_STOP == "emergency_stop"
ControllerState == {INACTIVE, ACTIVE, ERROR, EMERGENCY_STOP}

\* Controller instances handed to the manager: an AttitudeController and a
\* TrajectoryController; the latter owns an inner PositionController.
Att == "demo_attitude"
Traj == "demo_trajectory"
TrajInner == "trajectory_position_controller"
Ctl == {Att, Traj}
AllCtl == Ctl \cup {TrajInner}
None == "None"

\* controller_manager.py : ControlMode
MANUAL == "manual"
ATTITUDE == "attitude"
POSITION == "position"
VELOCITY == "velocity"
TRAJECTORY == "trajectory"
EMERGENCY == "emergency"
ControlMode == {MANUAL, ATTITUDE, POSITION, VELOCITY, TRAJECTORY, EMERGENCY}
FlightModes == {ATTITUDE, POSITION, VELOCITY, TRAJECTORY}

\* Names under which controllers are registered
Names == {"attitude", "trajectory"}
\* keys of controller_errors: registration names and controllers' own names
ErrKeys == Names \cup Ctl
Absent == -1

\* ControllerManagerConfig defaults (time unit of the model: one second)
controller_timeout_s == 1
fallback_controller == "attitude"
FallbackErrorLimit == 3
StreakCap == 4

\* SensorData, reduced to the fields the manager and the controllers' safety
\* checks read
NoSensor == [battery_percent |-> -1, pitch_deg |-> 0, roll_deg |-> 0]
SensorSamples ==
    { [battery_percent |-> 50, pitch_deg |-> 60, roll_deg |-> -60],
      [battery_percent |-> 10, pitch_deg |-> 0, roll_deg |-> 0],
      [battery_percent |-> 9, pitch_deg |-> 0, roll_deg |-> 0],
      [battery_percent |-> 50, pitch_deg |-> -61, roll_deg |-> 0],
      [battery_percent |-> 50, pitch_deg |-> 0, roll_deg |-> 61] }

Abs(x) == IF x < 0 THEN -x ELSE x

VARIABLES
    \* --- controllers (base_controller.py)
    state,                    \* [AllCtl -> ControllerState]
    target_setpoint,          \* [AllCtl -> BOOLEAN]  (a target is set)
    \* --- ControllerManager
    safety_check_enabled,     \* config.safety_check_enabled
    auto_fallback_enabled,    \* config.auto_fallback_enabled
    controllers,              \* [Names -> Ctl \cup {None}]
    controller_errors,        \* [ErrKeys -> Nat \cup {Absent}]
    active_controller,        \* Ctl \cup {None}
    current_control_mode,
    is_running,
    latest_sensor_data,
    since_success,            \* time.time() - last_successful_control_time, seconds
    raise_streak,             \* [who, n]: n consecutive loop update calls on which who's control law raised
    ev                        \* the last operation and what it returned

mgrVars == <<state, target_setpoint, safety_check_enabled,
             auto_fallback_enabled, controllers, controller_errors,
             active_controller, current_control_mode, is_running,
             latest_sensor_data, since_success, raise_streak, ev>>

VARIABLES
    \* --- ConnectionManager
    connected,                \* ConnectionManager.connected
    cm_monitoring,            \* ConnectionManager.monitoring
    cm_threads,               \* _monitor_connection thread instances
    \* --- SafetyManager
    sm_monitoring,            \* SafetyManager.monitoring
    sm_threads,               \* _safety_monitor thread instances
    emergency_landed,
    \* --- TelloController
    in_flight,
    emergency_callback,       \* SafetyManager.emergency_callback is set
    \* --- the aircraft and its link
    link_up,                  \* a probe or command sent now is answered
    battery,                  \* what get_battery() returns
    fev                       \* the last flight operation and its outcome

flightVars == <<connected, cm_monitoring, cm_threads, sm_monitoring,
                sm_threads, emergency_landed, in_flight, emergency_callback,
                link_up, battery, fev>>

VARIABLES
    \* --- CustomControllerDemo
    demo_pc                   \* where run_full_demo's main thread stands

demoVars == <<demo_pc>>

VARIABLES
    \* --- FlightDataRecorder
    recording,                \* FlightDataRecorder.recording
    record_thread,            \* the _record_worker thread: "idle" or "run"
    csv_open,                 \* csv_file and csv_writer are set
    csv_row                   \* the last row written to the session CSV

recVars == <<recording, record_thread, csv_open, csv_row>>

VARIABLES
    \* --- the landing experiments (LandingExperiment, ExperimentRunner)
    land_profile,             \* "multi" (LandingExperiment) or "direct" (ExperimentRunner)
    land_pc,                  \* where the experiment's thread stands
    land_stage,               \* descent stage of the multi-stage profile, 0..3
    land_elapsed,             \* control ticks spent in the running loop
    current_height,           \* last fused height reading, cm
    last_link_cmd,            \* last flight command handed to the link
    descent_end,              \* how the last controlled descent returned
    land_result,              \* return value of the experiment
    experiment_running,       \* self.experiment_running
    land_link,                \* the experiment's ConnectionManager is connected
    land_recording            \* the experiment's recorder is recording

landVars == <<land_profile, land_pc, land_stage, land_elapsed, current_height,
              last_link_cmd, descent_end, land_result, experiment_running,
              land_link, land_recording>>

VARIABLES
    \* --- the altitude experiment (AltitudeExperiment and its main)
    alt_pc,                   \* where main's thread stands
    alt_cfg,                  \* the constants of experiment_config
    alt_how,                  \* how the run left main's try block
    experiment_start_time,    \* TRUE when experiment_start_time is set
    alt_controller,           \* controller and data_recorder are created
    alt_link,                 \* connection_manager is connected
    alt_recording,            \* data_recorder.recording
    alt_in_flight,            \* controller.in_flight
    alt_flight_cmd,           \* a flight command was handed to the drone
    current_cycle,            \* self.current_cycle
    rc_distance,              \* distance_cm of the running _rc_move_down
    start_height,             \* start_height of the running _rc_move_down
    alt_height,               \* the last reading of the RC loop
    alt_elapsed,              \* passes of the RC loop so far
    alt_unchanged,            \* consecutive passes that read the same height
    alt_rc,                   \* the RC command in force: "none", "down", "zero"
    alt_report,               \* the text report was written
    alt_log                   \* what main's finally clause did, in order

altVars == <<alt_pc, alt_cfg, alt_how, experiment_start_time, alt_controller,
             alt_link, alt_recording, alt_in_flight, alt_flight_cmd,
             current_cycle, rc_distance, start_height, alt_height,
             alt_elapsed, alt_unchanged, alt_rc, alt_report, alt_log>>

VARIABLES
    \* --- the interactive commander (TelloCommander and its main)
    cli_pc,                   \* where main's thread stands
    cli                       \* the commander, its components and what its
                              \* shutdown sequence has done so far

cliVars == <<cli_pc, cli>>

VARIABLES
    \* --- a caller of SafetyManager.check_flight_safety
    gate_call                 \* the last call of the gate and its outcome

gateVars == <<gate_call>>

VARIABLES
    \* --- a direct caller of a controller's compute_control
    ctl_call                  \* the last direct call and what it returned

computeVars == <<ctl_call>>

VARIABLES
    \* --- the thread that calls ControllerManager.update_sensor_data
    sensor_cb                 \* its position and what each callback was given

sensorVars == <<sensor_cb>>

VARIABLES
    \* --- a recorder (flight data or video), its caller and its worker
    session                   \* flags, file, and where the two threads stand

sessionVars == <<session>>

\* the programs built on top of the flight controller
appVars == <<recVars, landVars, altVars, cliVars, gateVars, computeVars,
             sensorVars, sessionVars>>

\* the application state each program leaves alone
notRec == <<landVars, altVars, cliVars, gateVars, computeVars, sensorVars,
    sessionVars>>
notLand == <<recVars, altVars, cliVars, gateVars, computeVars, sensorVars,
    sessionVars>>
notAlt == <<recVars, landVars, cliVars, gateVars, computeVars, sensorVars,
    sessionVars>>
notCli == <<recVars, landVars, altVars, gateVars, computeVars, sensorVars,
    sessionVars>>
notGate == <<recVars, landVars, altVars, cliVars, computeVars, sensorVars,
    sessionVars>>
notCompute == <<recVars, landVars, altVars, cliVars, gateVars, sensorVars,
    sessionVars>>
notSensor == <<recVars, landVars, altVars, cliVars, gateVars, computeVars,
    sessionVars>>
notSession == <<recVars, landVars, altVars, cliVars, gateVars, computeVars,
    sensorVars>>

vars == <<mgrVars, flightVars, demoVars, appVars>>

\* ------------------------------------------------------------------------
\* BaseController : activate / deactivate / update / emergency_stop / reset
\* Operators take the state map st and return the new map with the result.
\* ------------------------------------------------------------------------
RECURSIVE activate(_, _), deactivate(_, _), reset(_, _, _)

\* _on_activate: base hook returns True; the trajectory controller
\* activates its inner position controller and returns that result.
on_activate(st, c) ==
    IF c = Traj
    THEN LET r == activate(st, TrajInner)
         IN [st |-> r.st, res |-> IF r.ok THEN "true" ELSE "false"]
    ELSE [st |-> st, res |-> "true"]

\* _on_deactivate: base hook returns True; trajectory delegates.
on_deactivate(st, c) ==
    IF c = Traj
    THEN LET r == deactivate(st, TrajInner)
         IN [st |-> r.st, res |-> IF r.ok THEN "true" ELSE "false"]
    ELSE [st |-> st, res |-> "true"]

\* activate without the check that the controller is Inactive
activate_any(st, c) ==
    LET h == on_activate(st, c)
    IN CASE h.res = "true" -> [st |-> [h.st EXCEPT ![c] = ACTIVE], ok |-> TRUE]
         [] h.res = "false" -> [st |-> h.st, ok |-> FALSE]
         [] OTHER -> [st |-> [h.st EXCEPT ![c] = ERROR], ok |-> FALSE]

activate(st, c) ==
    IF st[c] = INACTIVE
    THEN LET h == on_activate(st, c)
         IN CASE h.res = "true" -> [st |-> [h.st EXCEPT ![c] = ACTIVE], ok |-> TRUE]
              [] h.res = "false" -> [st |-> h.st, ok |-> FALSE]
              [] OTHER -> [st |-> [h.st EXCEPT ![c] = ERROR], ok |-> FALSE]
    ELSE [st |-> st, ok |-> FALSE]

deactivate(st, c) ==
    IF st[c] = ACTIVE
    THEN LET h == on_deactivate(st, c)
         IN CASE h.res = "true" -> [st |-> [h.st EXCEPT ![c] = INACTIVE], ok |-> TRUE]
              [] h.res = "false" -> [st |-> h.st, ok |-> FALSE]
              [] OTHER -> [st |-> [h.st EXCEPT ![c] = ERROR], ok |-> FALSE]
    ELSE [st |-> st, ok |-> FALSE]

\* emergency_stop: state becomes EMERGENCY_STOP, the zero command is returned
emergency_stop(st, c) == [st |-> [st EXCEPT ![c] = EMERGENCY_STOP], cmd |-> "zero"]

\* _safety_check: fails when battery is below 20 percent
safety_check_low(sensor) == ~(sensor.battery_percent < 15)
safety_check(sensor) == ~(sensor.battery_percent < 20)

\* compute_control of the concrete controllers: safety check first (a
\* failure is an emergency stop), then the control law, which either
\* returns a command or raises (out = "raise").
compute_control(st, c, sensor, out) ==
    IF ~safety_check(sensor)
    THEN LET e == emergency_stop(st, c) IN [st |-> e.st, res |-> e.cmd]
    ELSE IF out = "raise" THEN [st |-> st, res |-> "raise"]
    ELSE [st |-> st, res |-> "ctl"]

\* update: no-op unless Active with a target; an exception of
\* compute_control is caught here, the state becomes ERROR and None is
\* returned.  "raised" tells whether update itself raised to its caller,
\* "caught" whether it caught an exception of compute_control.
update(st, tg, c, sensor, out) ==
    IF st[c] # ACTIVE
    THEN [st |-> st, cmd |-> None, raised |-> FALSE, caught |-> FALSE]
    ELSE IF ~tg[c]
    THEN [st |-> st, cmd |-> None, raised |-> FALSE, caught |-> FALSE]
    ELSE LET r == compute_control(st, c, sensor, out)
         IN IF r.res = "raise"
            THEN [st |-> [r.st EXCEPT ![c] = ERROR], cmd |-> None,
                  raised |-> FALSE, caught |-> TRUE]
            ELSE [st |-> r.st, cmd |-> r.res,
                  raised |-> FALSE, caught |-> FALSE]

\* _on_reset: base hooks return True; trajectory resets its inner controller
on_reset(st, tg, c) ==
    IF c = Traj
    THEN LET r == reset(st, tg, TrajInner)
         IN [st |-> r.st, tg |-> r.tg, res |-> IF r.ok THEN "true" ELSE "false"]
    ELSE [st |-> st, tg |-> tg, res |-> "true"]

reset(st, tg, c) ==
    LET st1 == [st EXCEPT ![c] = INACTIVE]
        tg1 == [tg EXCEPT ![c] = FALSE]
        h == on_reset(st1, tg1, c)
    IN IF h.res = "raise"
       THEN [st |-> [h.st EXCEPT ![c] = ERROR], tg |-> h.tg, ok |-> FALSE]
       ELSE [st |-> h.st, tg |-> h.tg, ok |-> h.res = "true"]

\* ------------------------------------------------------------------------
\* ControllerManager
\* ------------------------------------------------------------------------
Event(op, c, ok, cmd, estop) ==
    [op |-> op, c |-> c, ok |-> ok, cmd |-> cmd, estop |-> estop]

NoStreak == [who |-> None, n |-> 0]

\* what ev holds after an operation other than a control cycle
Idle == Event("op", None, TRUE, None, FALSE)

\* mode_controller_map of switch_control_mode
mode_controller_map(mode) == mode

\* switch_control_mode that forgets to deactivate the current controller
switch_control_mode_keep(st, act, reg, mode, cname) ==
    LET target == IF cname # None THEN cname ELSE mode_controller_map(mode)
    IN IF mode \in {MANUAL, EMERGENCY}
       THEN [st |-> st, act |-> None, mode |-> mode, ok |-> TRUE]
       ELSE IF target \notin Names \/ reg[target] = None
       THEN [st |-> st, act |-> None, mode |-> mode, ok |-> FALSE]
       ELSE LET a == activate(st, reg[target])
            IN IF a.ok
               THEN [st |-> a.st, act |-> reg[target], mode |-> mode, ok |-> TRUE]
               ELSE [st |-> a.st, act |-> None, mode |-> mode, ok |-> FALSE]

\* switch_control_mode(mode, controller_name): returns the controllers'
\* states, the active controller, the mode and the result.
switch_control_mode(st, act, reg, mode, cname) ==
    LET st1 == IF act # None THEN deactivate(st, act).st ELSE st
        target == IF cname # None THEN cname ELSE mode_controller_map(mode)
    IN IF mode \in {MANUAL, EMERGENCY}
       THEN [st |-> st1, act |-> None, mode |-> mode, ok |-> TRUE]
       ELSE IF target \notin Names \/ reg[target] = None
       THEN [st |-> st1, act |-> None, mode |-> mode, ok |-> FALSE]
       ELSE LET a == activate(st1, reg[target])
            IN IF a.ok
               THEN [st |-> a.st, act |-> reg[target], mode |-> mode, ok |-> TRUE]
               ELSE [st |-> a.st, act |-> None, mode |-> mode, ok |-> FALSE]

\* perform_safety_checks with the battery limit one percent lower
perform_safety_checks_low(sensor, elapsed) ==
    IF elapsed > controller_timeout_s THEN "timeout"
    ELSE IF sensor.battery_percent < 9 THEN "battery"
    ELSE IF Abs(sensor.pitch_deg) > 60 \/ Abs(sensor.roll_deg) > 60 THEN "tilt"
    ELSE "ok"

\* _perform_safety_checks: the first failing check, or "ok"
perform_safety_checks(sensor, elapsed) ==
    IF elapsed > controller_timeout_s THEN "timeout"
    ELSE IF sensor.battery_percent < 10 THEN "battery"
    ELSE IF Abs(sensor.pitch_deg) > 60 \/ Abs(sensor.roll_deg) > 60 THEN "tilt"
    ELSE "ok"

\* _perform_controller_fallback
perform_controller_fallback(st, act, reg) ==
    IF fallback_controller \in Names /\ reg[fallback_controller] # None
    THEN switch_control_mode(st, act, reg, ATTITUDE, fallback_controller)
    ELSE switch_control_mode(st, act, reg, MANUAL, None)

RegisterController(name, c) ==
    /\ controllers' = [controllers EXCEPT ![name] = c]
    /\ controller_errors' = [controller_errors EXCEPT ![name] = 0]
    /\ ev' = Idle
    /\ UNCHANGED <<state, target_setpoint, safety_check_enabled,
                   auto_fallback_enabled, active_controller,
                   current_control_mode, is_running, latest_sensor_data,
                   since_success, raise_streak>>
    /\ UNCHANGED <<flightVars, demoVars, appVars>>

UnregisterController(name) ==
    /\ UNCHANGED <<flightVars, demoVars, appVars>>
    /\ IF controllers[name] = None
       THEN /\ ev' = Idle
            /\ UNCHANGED <<state, target_setpoint, safety_check_enabled,
                           auto_fallback_enabled, controllers, controller_errors,
                           active_controller, current_control_mode, is_running,
                           latest_sensor_data, since_success, raise_streak>>
       ELSE LET c == controllers[name]
                sw == IF active_controller = c
                      THEN switch_control_mode(state, active_controller,
                                               controllers, MANUAL, None)
                      ELSE [st |-> state, act |-> active_controller,
                            mode |-> current_control_mode, ok |-> TRUE]
                d == deactivate(sw.st, c)
                r == reset(d.st, target_setpoint, c)
            IN /\ state' = r.st
               /\ target_setpoint' = r.tg
               /\ active_controller' = sw.act
               /\ current_control_mode' = sw.mode
               /\ controllers' = [controllers EXCEPT ![name] = None]
               /\ controller_errors' = [controller_errors EXCEPT ![name] = Absent]
               /\ raise_streak' = IF sw.act = active_controller THEN raise_streak ELSE NoStreak
               /\ ev' = Idle
               /\ UNCHANGED <<safety_check_enabled, auto_fallback_enabled,
                              is_running, latest_sensor_data,
                              since_success>>

SwitchControlMode(mode, cname) ==
    LET sw == switch_control_mode(state, active_controller, controllers,
                                  mode, cname)
    IN /\ state' = sw.st
       /\ active_controller' = sw.act
       /\ current_control_mode' = sw.mode
       /\ raise_streak' = NoStreak
       /\ ev' = Idle
       /\ UNCHANGED <<target_setpoint, safety_check_enabled,
                      auto_fallback_enabled, controllers, controller_errors,
                      is_running, latest_sensor_data, since_success>>
       /\ UNCHANGED <<flightVars, demoVars, appVars>>

StartControlLoop ==
    /\ is_running' = TRUE
    /\ ev' = Idle
    /\ UNCHANGED <<state, target_setpoint, safety_check_enabled,
                   auto_fallback_enabled, controllers, controller_errors,
                   active_controller, current_control_mode,
                   latest_sensor_data, since_success, raise_streak>>
    /\ UNCHANGED <<flightVars, demoVars, appVars>>

StopControlLoop ==
    /\ is_running' = FALSE
    /\ IF is_running /\ active_controller # None
       THEN /\ state' = deactivate(state, active_controller).st
            /\ active_controller' = None
            /\ raise_streak' = NoStreak
       ELSE UNCHANGED <<state, active_controller, raise_streak>>
    /\ ev' = Idle
    /\ UNCHANGED <<target_setpoint, safety_check_enabled,
                   auto_fallback_enabled, controllers, controller_errors,
                   current_control_mode, latest_sensor_data,
                   since_success>>
    /\ UNCHANGED <<flightVars, demoVars, appVars>>

UpdateSensorData(s) ==
    /\ latest_sensor_data' = s
    /\ ev' = Idle
    /\ UNCHANGED <<state, target_setpoint, safety_check_enabled,
                   auto_fallback_enabled, controllers, controller_errors,
                   active_controller, current_control_mode, is_running,
                   since_success, raise_streak>>
    /\ UNCHANGED <<flightVars, demoVars, appVars>>

\* set_target of a controller, accepted
SetTarget(c) ==
    /\ target_setpoint' = [target_setpoint EXCEPT ![c] = TRUE]
    /\ ev' = Idle
    /\ UNCHANGED <<state, safety_check_enabled, auto_fallback_enabled,
                   controllers, controller_errors, active_controller,
                   current_control_mode, is_running, latest_sensor_data,
                   since_success, raise_streak>>
    /\ UNCHANGED <<flightVars, demoVars, appVars>>

Tick ==
    /\ since_success < MaxElapsed
    /\ since_success' = since_success + 1
    /\ ev' = Idle
    /\ UNCHANGED <<state, target_setpoint, safety_check_enabled,
                   auto_fallback_enabled, controllers, controller_errors,
                   active_controller, current_control_mode, is_running,
                   latest_sensor_data, raise_streak>>
    /\ UNCHANGED <<flightVars, demoVars, appVars>>

\* _execute_control_cycle, one iteration of _control_loop.  out is what the
\* active controller's control law does when it is reached.
ExecuteControlCycle(out) ==
    LET sensor == latest_sensor_data
        gate == IF safety_check_enabled
                THEN perform_safety_checks(sensor, since_success)
                ELSE "ok"
        em == switch_control_mode(state, active_controller, controllers,
                                  EMERGENCY, None)
        u == update(state, target_setpoint, active_controller, sensor, out)
        lawRaises == /\ out = "raise"
                     /\ safety_check(sensor)
                     /\ target_setpoint[active_controller]
                     /\ state[active_controller] \in {ACTIVE, ERROR}
        errs == controller_errors[active_controller] + 1
        fb == perform_controller_fallback(u.st, active_controller, controllers)
    IN
    /\ is_running
    /\ CASE sensor = NoSensor ->
              /\ ev' = Event("cycle", None, FALSE, None, FALSE)
              /\ UNCHANGED <<state, active_controller, current_control_mode,
                             controller_errors, since_success, raise_streak>>
         [] sensor # NoSensor /\ gate # "ok" ->
              /\ state' = em.st
              /\ active_controller' = em.act
              /\ current_control_mode' = em.mode
              /\ raise_streak' = NoStreak
              /\ ev' = Event("cycle", None, FALSE, None, FALSE)
              /\ UNCHANGED <<controller_errors, since_success>>
         [] sensor # NoSensor /\ gate = "ok"
               /\ current_control_mode \in {MANUAL, EMERGENCY} ->
              /\ ev' = Event("cycle", None, TRUE, "zero", FALSE)
              /\ UNCHANGED <<state, active_controller, current_control_mode,
                             controller_errors,
                             since_success, raise_streak>>
         [] sensor # NoSensor /\ gate = "ok"
               /\ current_control_mode \notin {MANUAL, EMERGENCY}
               /\ active_controller = None ->
              /\ ev' = Event("cycle", None, TRUE, None, FALSE)
              /\ UNCHANGED <<state, active_controller, current_control_mode,
                             controller_errors, since_success, raise_streak>>
         [] OTHER ->
              /\ raise_streak' =
                    IF lawRaises
                    THEN [who |-> active_controller,
                          n |-> IF raise_streak.n < StreakCap
                                THEN raise_streak.n + 1 ELSE StreakCap]
                    ELSE NoStreak
              /\ IF u.raised
                 THEN \* except branch of the cycle
                      IF controller_errors[active_controller] = Absent
                      THEN /\ state' = u.st
                           /\ ev' = Event("cycle_raised", None,
                                          FALSE, None, FALSE)
                           /\ UNCHANGED <<active_controller,
                                          current_control_mode,
                                          controller_errors, since_success>>
                      ELSE /\ controller_errors' =
                                [controller_errors EXCEPT
                                    ![active_controller] = errs]
                           /\ IF auto_fallback_enabled
                                 /\ errs > FallbackErrorLimit
                              THEN /\ state' = fb.st
                                   /\ active_controller' = fb.act
                                   /\ current_control_mode' = fb.mode
                              ELSE /\ state' = u.st
                                   /\ UNCHANGED <<active_controller,
                                                  current_control_mode>>
                           /\ ev' = Event("cycle", None, TRUE,
                                          None, FALSE)
                           /\ UNCHANGED <<since_success>>
                 ELSE /\ state' = u.st
                      /\ IF u.cmd # None
                         THEN /\ controller_errors' =
                                   [controller_errors EXCEPT
                                       ![active_controller] = 0]
                              /\ since_success' = 0
                         ELSE UNCHANGED <<controller_errors,
                                          since_success>>
                      /\ ev' = Event("cycle", None, TRUE, u.cmd,
                                     u.st[active_controller] = EMERGENCY_STOP
                                       /\ state[active_controller] = ACTIVE)
                      /\ UNCHANGED <<active_controller, current_control_mode>>
    /\ UNCHANGED <<target_setpoint, safety_check_enabled,
                   auto_fallback_enabled, controllers, is_running,
                   latest_sensor_data>>
    /\ UNCHANGED <<flightVars, demoVars, appVars>>

\* ControllerManager.__init__ with freshly constructed controllers
InitMgr ==
    /\ state = [c \in AllCtl |-> INACTIVE]
    /\ target_setpoint = [c \in AllCtl |-> FALSE]
    /\ safety_check_enabled \in BOOLEAN
    /\ auto_fallback_enabled = safety_check_enabled
    /\ controllers = [n \in Names |-> None]
    /\ controller_errors = [k \in ErrKeys |-> Absent]
    /\ active_controller = None
    /\ current_control_mode = MANUAL
    /\ is_running = FALSE
    /\ latest_sensor_data = NoSensor
    /\ since_success = 0
    /\ raise_streak = NoStreak
    /\ ev = Idle

NextMgr ==
    \/ \E n \in Names, c \in Ctl : RegisterController(n, c)
    \/ \E n \in Names : UnregisterController(n)
    \/ \E m \in ControlMode, n \in Names \cup {None} : SwitchControlMode(m, n)
    \/ StartControlLoop
    \/ StopControlLoop
    \/ \E s \in SensorSamples : UpdateSensorData(s)
    \/ \E c \in Ctl : SetTarget(c)
    \/ \E out \in {"ok", "raise"} : ExecuteControlCycle(out)
    \/ Tick


\* ------------------------------------------------------------------------
\* SpecCtl: the controller life cycle driven directly through the
\* BaseController interface
\* ------------------------------------------------------------------------
mgrOnly == <<safety_check_enabled, auto_fallback_enabled, controllers,
             controller_errors, active_controller, current_control_mode,
             is_running, latest_sensor_data, since_success, raise_streak>>

CtlActivate(c) ==
    LET r == activate(state, c)
    IN /\ state' = r.st
       /\ ev' = Event("activate", c, r.ok, None, FALSE)
       /\ UNCHANGED <<target_setpoint, mgrOnly>>
       /\ UNCHANGED <<flightVars, demoVars, appVars>>

CtlDeactivate(c) ==
    LET r == deactivate(state, c)
    IN /\ state' = r.st
       /\ ev' = Event("deactivate", c, r.ok, None, FALSE)
       /\ UNCHANGED <<target_setpoint, mgrOnly>>
       /\ UNCHANGED <<flightVars, demoVars, appVars>>

CtlSetTarget(c) ==
    /\ target_setpoint' = [target_setpoint EXCEPT ![c] = TRUE]
    /\ ev' = Event("set_target", c, TRUE, None, FALSE)
    /\ UNCHANGED <<state, mgrOnly>>
    /\ UNCHANGED <<flightVars, demoVars, appVars>>

CtlUpdate(c, sensor, out) ==
    LET u == update(state, target_setpoint, c, sensor, out)
    IN /\ state' = u.st
       /\ ev' = Event("update", c, ~u.caught, u.cmd,
                      state[c] = ACTIVE /\ u.st[c] = EMERGENCY_STOP)
       /\ UNCHANGED <<target_setpoint, mgrOnly>>
       /\ UNCHANGED <<flightVars, demoVars, appVars>>

CtlEmergencyStop(c) ==
    LET e == emergency_stop(state, c)
    IN /\ state' = e.st
       /\ ev' = Event("emergency_stop", c, TRUE, e.cmd, TRUE)
       /\ UNCHANGED <<target_setpoint, mgrOnly>>
       /\ UNCHANGED <<flightVars, demoVars, appVars>>

CtlReset(c) ==
    LET r == reset(state, target_setpoint, c)
    IN /\ state' = r.st
       /\ target_setpoint' = r.tg
       /\ ev' = Event("reset", c, r.ok, None, FALSE)
       /\ UNCHANGED mgrOnly
       /\ UNCHANGED <<flightVars, demoVars, appVars>>

NextCtl ==
    \/ \E c \in AllCtl : CtlActivate(c)
    \/ \E c \in AllCtl : CtlDeactivate(c)
    \/ \E c \in AllCtl : CtlSetTarget(c)
    \/ \E c \in AllCtl, s \in SensorSamples, out \in {"ok", "raise"} :
          CtlUpdate(c, s, out)
    \/ \E c \in AllCtl : CtlEmergencyStop(c)
    \/ \E c \in AllCtl : CtlReset(c)


\* ------------------------------------------------------------------------
\* core/connection.py, utils/safety.py, core/tello_controller.py
\* ------------------------------------------------------------------------
Threads == 1..MaxThreads
IdleThread == [st |-> "idle", fails |-> 0, cbs |-> 0]
NewThread == [st |-> "run", fails |-> 0, cbs |-> 0]
Running(threads) == {t \in Threads : threads[t].st = "run"}
HasFree(threads) == Running(threads) # Threads
FreeSlot(threads) ==
    CHOOSE t \in Threads :
        threads[t].st # "run" /\ \A u \in 1..(t - 1) : threads[u].st = "run"

FlightEvent(op, err, inner) ==
    [op |-> op, err |-> err, inner |-> inner, sent |-> FALSE,
     called |-> FALSE]
TriggerEvent(op, r) ==
    [op |-> op, err |-> "none", inner |-> "none", sent |-> r.sent,
     called |-> r.called]
Background == FlightEvent("bg", "none", "none")
BatteryLevels == {BATTERY_CRITICAL_THRESHOLD, BATTERY_CRITICAL_THRESHOLD + 1}
MoveCommands == {"up", "down", "left", "right", "forward", "back"}
RotateCommands == {"cw", "ccw"}

\* ConnectionManager.is_connected: connected and a fresh battery probe answers
is_connected(conn, up) == conn /\ up

\* ConnectionManager.start_monitoring / SafetyManager.start_safety_monitoring
\* after the feature-flag test: nothing when the flag says monitoring,
\* otherwise set the flag and start a thread.
start_monitoring(mon, threads) ==
    IF mon THEN [mon |-> mon, threads |-> threads]
    ELSE [mon |-> TRUE,
          threads |-> [threads EXCEPT ![FreeSlot(threads)] = NewThread]]

start_safety_monitoring(mon, threads) ==
    IF ~ENABLE_SAFETY_CHECKS THEN [mon |-> mon, threads |-> threads]
    ELSE start_monitoring(mon, threads)

\* one iteration of _monitor_connection that gives up one probe later
monitor_connection_late(th, mon, conn, up) ==
    IF ~mon THEN [th |-> IdleThread, conn |-> conn, lost |-> FALSE]
    ELSE IF ~is_connected(conn, up)
    THEN IF th.fails + 1 >= 4
         THEN [th |-> [st |-> "done", fails |-> th.fails + 1,
                       cbs |-> th.cbs + 1],
               conn |-> FALSE, lost |-> TRUE]
         ELSE [th |-> [th EXCEPT !.fails = th.fails + 1],
               conn |-> conn, lost |-> FALSE]
    ELSE [th |-> [th EXCEPT !.fails = 0], conn |-> conn, lost |-> FALSE]

\* one iteration of ConnectionManager._monitor_connection by thread record th
monitor_connection(th, mon, conn, up) ==
    IF ~mon THEN [th |-> IdleThread, conn |-> conn, lost |-> FALSE]
    ELSE IF ~is_connected(conn, up)
    THEN IF th.fails + 1 >= 3
         THEN [th |-> [st |-> "done", fails |-> th.fails + 1,
                       cbs |-> th.cbs + 1],
               conn |-> FALSE, lost |-> TRUE]
         ELSE [th |-> [th EXCEPT !.fails = th.fails + 1],
               conn |-> conn, lost |-> FALSE]
    ELSE [th |-> [th EXCEPT !.fails = 0], conn |-> conn, lost |-> FALSE]

\* SafetyManager._trigger_emergency_landing
trigger_emergency_landing(conn, up, cb_set, flying) ==
    [landed |-> TRUE,
     sent |-> is_connected(conn, up),
     called |-> cb_set,
     flying |-> IF cb_set THEN FALSE ELSE flying]

\* SafetyManager.check_flight_safety: "true", "false" or "safety" (raises
\* TelloSafetyError).  value 0 stands for None.
check_flight_safety_strict(command, value, conn, up, batt, speed_limit, alt_limit) ==
    IF ~ENABLE_SAFETY_CHECKS THEN "true"
    ELSE IF ~conn THEN "false"
    ELSE IF command \in MoveCommands /\ value # 0 /\ value >= speed_limit
    THEN "safety"
    ELSE IF command \notin MoveCommands /\ command \in RotateCommands
            /\ value # 0 /\ Abs(value) >= 360
    THEN "safety"
    ELSE IF command \notin MoveCommands /\ command \notin RotateCommands
            /\ command = "up" /\ value # 0 /\ value > alt_limit
    THEN "safety"
    ELSE IF ~up THEN "false"
    ELSE IF batt <= BATTERY_CRITICAL_THRESHOLD THEN "safety"
    ELSE "true"
check_flight_safety(command, value, conn, up, batt, speed_limit, alt_limit) ==
    IF ~ENABLE_SAFETY_CHECKS THEN "true"
    ELSE IF ~conn THEN "false"
    ELSE IF command \in MoveCommands /\ value # 0 /\ value > speed_limit
    THEN "safety"
    ELSE IF command \notin MoveCommands /\ command \in RotateCommands
            /\ value # 0 /\ Abs(value) > 360
    THEN "safety"
    ELSE IF command \notin MoveCommands /\ command \notin RotateCommands
            /\ command = "up" /\ value # 0 /\ value > alt_limit
    THEN "safety"
    ELSE IF ~up THEN "false"
    ELSE IF batt <= BATTERY_CRITICAL_THRESHOLD THEN "safety"
    ELSE "true"

\* the except clause of takeoff, land, flip and _execute_movement: whatever
\* was raised inside is re-raised as TelloControlError
reraise(inner) == "TelloControlError"

Gate(command, value) ==
    check_flight_safety(command, value, connected, link_up, battery,
                        SPEED_LIMIT, FLIGHT_ALTITUDE_LIMIT)

Failed(op, inner) == FlightEvent(op, reraise(inner), inner)

Connect ==
    /\ IF link_up
       THEN /\ connected' = TRUE
            /\ fev' = FlightEvent("connect", "none", "none")
       ELSE /\ fev' = FlightEvent("connect", "TelloConnectionError", "link")
            /\ UNCHANGED connected
    /\ UNCHANGED <<cm_monitoring, cm_threads, sm_monitoring, sm_threads,
                   emergency_landed,
                   in_flight, emergency_callback, link_up, battery>>
    /\ UNCHANGED <<mgrVars, demoVars, appVars>>

Disconnect ==
    /\ IF connected
       THEN /\ cm_monitoring' = FALSE
            /\ connected' = FALSE
       ELSE UNCHANGED <<cm_monitoring, connected>>
    /\ fev' = FlightEvent("disconnect", "none", "none")
    /\ UNCHANGED <<cm_threads, sm_monitoring, sm_threads, emergency_landed, in_flight,
                   emergency_callback, link_up, battery>>
    /\ UNCHANGED <<mgrVars, demoVars, appVars>>

\* TelloController.takeoff; cmd_ok: the aircraft accepts the command
Takeoff(cmd_ok) ==
    LET gate == Gate("takeoff", 0)
        sm == start_safety_monitoring(sm_monitoring, sm_threads)
        cm == start_monitoring(cm_monitoring, cm_threads)
    IN
    /\ CASE ~is_connected(connected, link_up) ->
              /\ fev' = Failed("takeoff", "TelloConnectionError")
              /\ UNCHANGED <<sm_monitoring, sm_threads, cm_monitoring,
                             cm_threads, in_flight, emergency_callback>>
         [] is_connected(connected, link_up) /\ in_flight ->
              /\ fev' = FlightEvent("takeoff", "none", "none")
              /\ UNCHANGED <<sm_monitoring, sm_threads, cm_monitoring,
                             cm_threads, in_flight, emergency_callback>>
         [] is_connected(connected, link_up) /\ ~in_flight
               /\ gate # "true" ->
              /\ fev' = Failed("takeoff", IF gate = "safety"
                                          THEN "TelloSafetyError"
                                          ELSE "TelloControlError")
              /\ UNCHANGED <<sm_monitoring, sm_threads, cm_monitoring,
                             cm_threads, in_flight, emergency_callback>>
         [] OTHER ->
              /\ sm_monitoring \/ ~ENABLE_SAFETY_CHECKS \/ HasFree(sm_threads)
              /\ cm_monitoring \/ HasFree(cm_threads)
              /\ sm_monitoring' = sm.mon
              /\ sm_threads' = sm.threads
              /\ emergency_callback' =
                    IF ENABLE_SAFETY_CHECKS /\ ~sm_monitoring
                    THEN TRUE ELSE emergency_callback
              /\ cm_monitoring' = cm.mon
              /\ cm_threads' = cm.threads
              /\ IF cmd_ok
                 THEN /\ in_flight' = TRUE
                      /\ fev' = FlightEvent("takeoff", "none", "none")
                 ELSE /\ fev' = Failed("takeoff", "link")
                      /\ UNCHANGED in_flight
    /\ UNCHANGED <<connected, emergency_landed, link_up, battery>>
    /\ UNCHANGED <<mgrVars, demoVars, appVars>>

\* TelloController.land
Land(cmd_ok) ==
    /\ CASE ~in_flight ->
              /\ fev' = FlightEvent("land", "none", "none")
              /\ UNCHANGED <<in_flight, sm_monitoring, cm_monitoring>>
         [] in_flight /\ ~connected ->
              /\ fev' = Failed("land", "TelloConnectionError")
              /\ UNCHANGED <<in_flight, sm_monitoring, cm_monitoring>>
         [] in_flight /\ connected /\ ~(cmd_ok /\ link_up) ->
              /\ fev' = Failed("land", "link")
              /\ UNCHANGED <<in_flight, sm_monitoring, cm_monitoring>>
         [] OTHER ->
              /\ in_flight' = FALSE
              /\ sm_monitoring' = FALSE
              /\ cm_monitoring' = FALSE
              /\ fev' = FlightEvent("land", "none", "none")
    /\ UNCHANGED <<connected, cm_threads, sm_threads, emergency_landed,
                   emergency_callback, link_up, battery>>
    /\ UNCHANGED <<mgrVars, demoVars, appVars>>

\* TelloController._execute_movement (move_* and rotate_*)
Move(command, value, cmd_ok) ==
    LET gate == Gate(command, value)
        op == IF command \in RotateCommands THEN "rotate" ELSE "move"
    IN
    /\ fev' = CASE ~in_flight -> Failed(op, "TelloControlError")
                [] in_flight /\ gate = "safety" ->
                     Failed(op, "TelloSafetyError")
                [] in_flight /\ gate = "false" ->
                     Failed(op, "TelloControlError")
                [] in_flight /\ gate = "true" /\ ~connected ->
                     Failed(op, "TelloConnectionError")
                [] in_flight /\ gate = "true" /\ connected
                     /\ ~(cmd_ok /\ link_up) -> Failed(op, "link")
                [] OTHER -> FlightEvent(op, "none", "none")
    /\ UNCHANGED <<connected, cm_monitoring, cm_threads, sm_monitoring,
                   sm_threads, emergency_landed, in_flight, emergency_callback, link_up,
                   battery>>
    /\ UNCHANGED <<mgrVars, demoVars, appVars>>

\* TelloController.flip with a valid direction
Flip(cmd_ok) ==
    LET gate == Gate("flip", 0)
    IN
    /\ fev' = CASE ~in_flight -> Failed("flip", "TelloControlError")
                [] in_flight /\ gate = "safety" ->
                     Failed("flip", "TelloSafetyError")
                [] in_flight /\ gate = "false" ->
                     Failed("flip", "TelloControlError")
                [] in_flight /\ gate = "true" /\ ~connected ->
                     Failed("flip", "TelloConnectionError")
                [] in_flight /\ gate = "true" /\ connected
                     /\ ~(cmd_ok /\ link_up) -> Failed("flip", "link")
                [] OTHER -> FlightEvent("flip", "none", "none")
    /\ UNCHANGED <<connected, cm_monitoring, cm_threads, sm_monitoring,
                   sm_threads, emergency_landed, in_flight, emergency_callback, link_up,
                   battery>>
    /\ UNCHANGED <<mgrVars, demoVars, appVars>>

\* TelloController.emergency_stop: get_tello raises when not connected and
\* the exception is logged; cmd_ok: the emergency command is sent without
\* an error (it can only fail while the link is down)
EmergencyStop(cmd_ok) ==
    /\ IF connected /\ (cmd_ok \/ link_up)
       THEN /\ in_flight' = FALSE
            /\ sm_monitoring' = FALSE
            /\ cm_monitoring' = FALSE
       ELSE UNCHANGED <<in_flight, sm_monitoring, cm_monitoring>>
    /\ fev' = FlightEvent("emergency_stop", "none",
                          IF ~connected THEN "TelloConnectionError"
                          ELSE IF cmd_ok \/ link_up THEN "none" ELSE "link")
    /\ UNCHANGED <<connected, cm_threads, sm_threads, emergency_landed,
                   emergency_callback, link_up, battery>>
    /\ UNCHANGED <<mgrVars, demoVars, appVars>>

\* SafetyManager.force_emergency_land
ForceEmergencyLand ==
    LET r == trigger_emergency_landing(connected, link_up, emergency_callback,
                                       in_flight)
    IN /\ emergency_landed' = r.landed
       /\ in_flight' = r.flying
       /\ fev' = TriggerEvent("force_emergency_land", r)
       /\ UNCHANGED <<connected, cm_monitoring, cm_threads, sm_monitoring,
                      sm_threads, emergency_callback, link_up, battery>>
       /\ UNCHANGED <<mgrVars, demoVars, appVars>>

\* one iteration of the _monitor_connection loop of thread t; the loss
\* callback is TelloController._on_connection_lost
ConnectionMonitorStep(t) ==
    LET r == monitor_connection(cm_threads[t], cm_monitoring, connected,
                                link_up)
    IN /\ cm_threads[t].st = "run"
       /\ cm_threads' = [cm_threads EXCEPT ![t] = r.th]
       /\ connected' = r.conn
       /\ in_flight' = IF r.lost THEN FALSE ELSE in_flight
       /\ fev' = Background
       /\ UNCHANGED <<cm_monitoring, sm_monitoring, sm_threads,
                      emergency_landed,
                      emergency_callback, link_up, battery>>
       /\ UNCHANGED <<mgrVars, demoVars, appVars>>

\* one iteration of the _safety_monitor loop of thread t
SafetyMonitorStep(t) ==
    LET trig == trigger_emergency_landing(connected, link_up,
                                          emergency_callback, in_flight)
        keep == [landed |-> emergency_landed, sent |-> FALSE,
                 called |-> FALSE, flying |-> in_flight]
        lostLink == ~is_connected(connected, link_up)
        r == CASE ~sm_monitoring -> keep
               [] sm_monitoring /\ lostLink ->
                    IF AUTO_LAND_ON_CONNECTION_LOST /\ ~emergency_landed
                    THEN trig ELSE keep
               [] sm_monitoring /\ ~lostLink ->
                    IF battery <= BATTERY_CRITICAL_THRESHOLD
                         /\ ~emergency_landed
                    THEN trig ELSE keep
    IN /\ sm_threads[t].st = "run"
       /\ sm_threads' =
             [sm_threads EXCEPT ![t] =
                 IF ~sm_monitoring THEN IdleThread
                 ELSE IF lostLink THEN [IdleThread EXCEPT !.st = "done"]
                 ELSE @]
       /\ emergency_landed' = r.landed
       /\ in_flight' = r.flying
       /\ fev' = TriggerEvent("safety_monitor", r)
       /\ UNCHANGED <<connected, cm_monitoring, cm_threads, sm_monitoring,
                      emergency_callback, link_up, battery>>
       /\ UNCHANGED <<mgrVars, demoVars, appVars>>

\* the radio link drops or comes back
LinkChange ==
    /\ link_up' = ~link_up
    /\ fev' = Background
    /\ UNCHANGED <<connected, cm_monitoring, cm_threads, sm_monitoring,
                   sm_threads, emergency_landed, in_flight, emergency_callback, battery>>
    /\ UNCHANGED <<mgrVars, demoVars, appVars>>

\* the battery reading changes
BatteryChange ==
    /\ battery' \in BatteryLevels \ {battery}
    /\ fev' = Background
    /\ UNCHANGED <<connected, cm_monitoring, cm_threads, sm_monitoring,
                   sm_threads, emergency_landed, in_flight, emergency_callback, link_up>>
    /\ UNCHANGED <<mgrVars, demoVars, appVars>>

\* ConnectionManager, SafetyManager and TelloController after construction
InitFlight ==
    /\ connected = FALSE
    /\ cm_monitoring = FALSE
    /\ cm_threads = [t \in Threads |-> IdleThread]
    /\ sm_monitoring = FALSE
    /\ sm_threads = [t \in Threads |-> IdleThread]
    /\ emergency_landed = FALSE
    /\ in_flight = FALSE
    /\ emergency_callback = FALSE
    /\ link_up = TRUE
    /\ battery = BATTERY_CRITICAL_THRESHOLD + 1
    /\ fev = Background

MoveInputs ==
    {<<"forward", SPEED_LIMIT>>, <<"up", SPEED_LIMIT + 1>>,
     <<"cw", 360>>, <<"ccw", 361>>}

NextFlight ==
    \/ Connect
    \/ Disconnect
    \/ \E ok \in BOOLEAN : Takeoff(ok)
    \/ \E ok \in BOOLEAN : Land(ok)
    \/ \E mv \in MoveInputs, ok \in BOOLEAN : Move(mv[1], mv[2], ok)
    \/ \E ok \in BOOLEAN : Flip(ok)
    \/ \E ok \in BOOLEAN : EmergencyStop(ok)
    \/ ForceEmergencyLand
    \/ \E t \in Threads : ConnectionMonitorStep(t)
    \/ \E t \in Threads : SafetyMonitorStep(t)
    \/ LinkChange
    \/ BatteryChange

\* ------------------------------------------------------------------------
\* controllers/example_usage.py : CustomControllerDemo.run_full_demo with the
\* attitude and the trajectory demonstration, the sensor thread and the
\* manager's control loop
\* ------------------------------------------------------------------------
flightFixed == <<cm_monitoring, cm_threads, sm_monitoring, sm_threads,
                 emergency_landed, in_flight, emergency_callback, link_up,
                 battery, fev>>

\* the discrete command the main thread has sent to the aircraft and that has
\* not returned yet
CommandInProgress ==
    CASE demo_pc = "takeoff_sent" -> "takeoff"
      [] demo_pc = "land_sent" -> "land"
      [] OTHER -> None

\* initialize_system: connect, register the controllers, start the loop
DemoInitializeSystem ==
    /\ demo_pc = "start"
    /\ IF link_up
       THEN /\ connected' = TRUE
            /\ controllers' = [n \in Names |->
                                  IF n = "attitude" THEN Att ELSE Traj]
            /\ controller_errors' =
                  [k \in ErrKeys |->
                      IF k \in Names THEN 0 ELSE controller_errors[k]]
            /\ is_running' = TRUE
            /\ demo_pc' = "ready"
       ELSE /\ demo_pc' = "done"
            /\ UNCHANGED <<connected, controllers, controller_errors,
                           is_running>>
    /\ ev' = Idle
    /\ UNCHANGED <<state, target_setpoint, safety_check_enabled,
                   auto_fallback_enabled, active_controller,
                   current_control_mode, latest_sensor_data, since_success,
                   raise_streak>>
    /\ UNCHANGED <<flightFixed, appVars>>

\* demo_attitude_control / demo_trajectory_control: switch_control_mode
DemoSwitchMode ==
    LET mode == IF demo_pc = "ready" THEN ATTITUDE ELSE TRAJECTORY
        sw == switch_control_mode(state, active_controller, controllers,
                                  mode, None)
    IN /\ demo_pc \in {"ready", "attitude_target"}
       /\ state' = sw.st
       /\ active_controller' = sw.act
       /\ current_control_mode' = sw.mode
       /\ raise_streak' = NoStreak
       /\ ev' = Idle
       /\ demo_pc' = IF demo_pc = "ready" THEN "attitude" ELSE "trajectory"
       /\ UNCHANGED <<target_setpoint, safety_check_enabled,
                      auto_fallback_enabled, controllers, controller_errors,
                      is_running, latest_sensor_data, since_success>>
       /\ UNCHANGED <<flightVars, appVars>>

\* get_tello().takeoff() in demo_attitude_control and get_tello().land() in
\* run_full_demo are sent; the call blocks until the aircraft answers
DemoSendCommand ==
    /\ demo_pc \in {"attitude", "trajectory_target"}
    /\ connected
    /\ demo_pc' = IF demo_pc = "attitude" THEN "takeoff_sent"
                  ELSE "land_sent"
    /\ ev' = Idle
    /\ UNCHANGED <<state, target_setpoint, safety_check_enabled,
                   auto_fallback_enabled, controllers, controller_errors,
                   active_controller, current_control_mode, is_running,
                   latest_sensor_data, since_success, raise_streak>>
    /\ UNCHANGED <<flightVars, appVars>>

\* the aircraft answers the command
DemoCommandReturns ==
    /\ demo_pc \in {"takeoff_sent", "land_sent"}
    /\ demo_pc' = IF demo_pc = "takeoff_sent" THEN "airborne" ELSE "landed"
    /\ ev' = Idle
    /\ UNCHANGED <<state, target_setpoint, safety_check_enabled,
                   auto_fallback_enabled, controllers, controller_errors,
                   active_controller, current_control_mode, is_running,
                   latest_sensor_data, since_success, raise_streak>>
    /\ UNCHANGED <<flightVars, appVars>>

\* set_target on the controller registered for the demonstration
DemoSetTarget ==
    LET c == IF demo_pc = "airborne" THEN controllers["attitude"]
             ELSE controllers["trajectory"]
    IN /\ demo_pc \in {"airborne", "trajectory"}
       /\ target_setpoint' = [target_setpoint EXCEPT ![c] = TRUE]
       /\ demo_pc' = IF demo_pc = "airborne" THEN "attitude_target"
                     ELSE "trajectory_target"
       /\ ev' = Idle
       /\ UNCHANGED <<state, safety_check_enabled, auto_fallback_enabled,
                      controllers, controller_errors, active_controller,
                      current_control_mode, is_running, latest_sensor_data,
                      since_success, raise_streak>>
       /\ UNCHANGED <<flightVars, appVars>>

\* _cleanup: stop_control_loop, then disconnect
DemoCleanup ==
    /\ demo_pc = "landed"
    /\ is_running' = FALSE
    /\ IF is_running /\ active_controller # None
       THEN /\ state' = deactivate(state, active_controller).st
            /\ active_controller' = None
       ELSE UNCHANGED <<state, active_controller>>
    /\ raise_streak' = NoStreak
    /\ connected' = FALSE
    /\ demo_pc' = "done"
    /\ ev' = Idle
    /\ UNCHANGED <<target_setpoint, safety_check_enabled,
                   auto_fallback_enabled, controllers, controller_errors,
                   current_control_mode, latest_sensor_data, since_success>>
    /\ UNCHANGED <<flightFixed, appVars>>

\* _sensor_data_loop: the sensor thread started by run_full_demo
DemoSensorData(s) ==
    /\ demo_pc \notin {"start", "done"}
    /\ is_running
    /\ UpdateSensorData(s)

InitDemo == demo_pc = "start"

NextDemo ==
    \/ DemoInitializeSystem
    \/ DemoSwitchMode
    \/ DemoSendCommand
    \/ DemoCommandReturns
    \/ DemoSetTarget
    \/ DemoCleanup
    \/ \E s \in SensorSamples : DemoSensorData(s)
    \/ \E out \in {"ok", "raise"} : ExecuteControlCycle(out)
    \/ Tick

\* ------------------------------------------------------------------------
\* data/flight_data_recorder.py : FlightDataRecorder
\* ------------------------------------------------------------------------
\* a row is the sequence of its fields; a field is named by where its value
\* came from
csv_headers ==
    <<"timestamp", "relative_time", "height_cm", "battery_percent",
      "temperature_deg", "pitch_deg", "roll_deg", "yaw_deg",
      "tof_distance_cm", "barometer_cm", "height_diff_cm", "vgx_cm_s",
      "vgy_cm_s", "vgz_cm_s", "agx_0001g", "agy_0001g", "agz_0001g",
      "wifi_snr">>

NoRow == <<>>

Fill(n, v) == [i \in 1..n |-> v]

\* what one telemetry read can do
ReadOutcomes == {"ok", "none", "raise"}

\* the groups of fields the state dictionary is parsed into, in order, with
\* the number of fields each appends: attitude, tof and baro, height
\* difference, velocity, acceleration, wifi
DictGroups == <<3, 2, 1, 3, 3, 1>>

RECURSIVE dict_fields(_, _)
\* the fields appended by the dictionary branch before group failAt raises
\* (failAt = 0: no group raises)
dict_fields(g, failAt) ==
    IF g > Len(DictGroups) \/ g = failAt THEN <<>>
    ELSE Fill(DictGroups[g], "dict") \o dict_fields(g + 1, failAt)

\* the defaults of the outer except clause of the state section
state_defaults == Fill(3, "default") \o Fill(3, "default")
                    \o Fill(3, "default") \o Fill(3, "default")
                    \o Fill(1, "default")

\* the height field: TOF first, then the API height, 0 on an error
height_field(tof, api) ==
    IF tof = "raise" THEN <<"default">>
    ELSE IF tof = "ok" THEN <<"tof">>
    ELSE IF api = "raise" THEN <<"default">>
    ELSE IF api = "ok" THEN <<"api">> ELSE <<"default">>

\* a single read with a default for None and for an error
read_field(r) == IF r = "ok" THEN <<"read">> ELSE <<"default">>

\* the fields after temperature.  st: what the state read gave ("dict",
\* "string", "none" or "raise"); failAt: the dictionary group whose parsing
\* raises; att, sens: the attitude and the sensor API calls of the fallback
state_fields(st, failAt, att, sens) ==
    IF st = "dict"
    THEN IF failAt = 0 THEN dict_fields(1, 0)
         ELSE dict_fields(1, failAt) \o state_defaults
    ELSE (IF att = "raise" THEN Fill(3, "default") ELSE Fill(3, "api"))
           \o (IF sens = "raise" THEN Fill(3, "default") ELSE Fill(3, "api"))
           \o Fill(3, "default") \o Fill(3, "default") \o Fill(1, "default")

\* _collect_drone_data with a connected link
collect_drone_data(tof, api, batt, temp, st, failAt, att, sens) ==
    <<"now", "relative">> \o height_field(tof, api) \o read_field(batt)
        \o read_field(temp) \o state_fields(st, failAt, att, sens)

\* start_recording
StartRecording ==
    /\ IF ~recording /\ is_connected(connected, link_up)
       THEN /\ csv_open' = TRUE
            /\ csv_row' = csv_headers
            /\ recording' = TRUE
            /\ record_thread' = "run"
       ELSE UNCHANGED recVars
    /\ UNCHANGED <<mgrVars, flightVars, demoVars, notRec>>

\* stop_recording
StopRecording ==
    /\ IF recording
       THEN /\ recording' = FALSE
            /\ csv_open' = FALSE
       ELSE UNCHANGED <<recording, csv_open>>
    /\ UNCHANGED <<record_thread, csv_row>>
    /\ UNCHANGED <<mgrVars, flightVars, demoVars, notRec>>

\* one iteration of _record_worker
RecordWorkerStep(tof, api, batt, temp, st, failAt, att, sens) ==
    /\ record_thread = "run"
    /\ IF ~recording \/ ~is_connected(connected, link_up)
       THEN /\ record_thread' = "idle"
            /\ UNCHANGED csv_row
       ELSE /\ csv_row' = IF csv_open
                          THEN collect_drone_data(tof, api, batt, temp, st,
                                                  failAt, att, sens)
                          ELSE csv_row
            /\ UNCHANGED record_thread
    /\ UNCHANGED <<recording, csv_open>>
    /\ UNCHANGED <<mgrVars, flightVars, demoVars, notRec>>

InitRec ==
    /\ recording = FALSE
    /\ record_thread = "idle"
    /\ csv_open = FALSE
    /\ csv_row = NoRow

NextRec ==
    \/ Connect
    \/ Disconnect
    \/ LinkChange
    \/ StartRecording
    \/ StopRecording
    \/ \E tof, api \in ReadOutcomes, batt, temp \in {"ok", "raise"},
          failAt \in 0..Len(DictGroups) :
          RecordWorkerStep(tof, api, batt, temp, "dict", failAt, "ok", "ok")
    \/ \E tof, api \in ReadOutcomes, batt, temp \in {"ok", "raise"},
          st \in {"string", "raise"}, att, sens \in {"ok", "raise"} :
          RecordWorkerStep(tof, api, batt, temp, st, 0, att, sens)

\* ------------------------------------------------------------------------
\* Landing experiments: LandingExperiment (multi-stage profile) and
\* ExperimentRunner (direct profile)

\* control ticks that fit in the time budget of one control loop
MaxLoopTicks == 2

\* fused height readings, cm
LandingHeights == {5, 15, 16, 55, 75, 100}

\* the targets of the three descents of the multi-stage profile, cm
StageTarget == <<70, 50, 10>>
FinalStage == 3
takeoff_height == 100

\* _descend_to_height: current_height <= target_height + 0.05
at_or_below(h, target) == h <= target + 5

\* _controlled_flight_to_target: pos_error < tolerance on binary floats; the
\* readings 15 cm (target 0.1 m, tolerance 0.05) and 90 cm (target 1.0 m,
\* tolerance 0.1) round to just inside the tolerance
FloatInside == {<<15, 10, 5>>, <<90, 100, 10>>}
pos_error_below(h, target, tol) ==
    Abs(h - target) < tol \/ <<h, target, tol>> \in FloatInside

LandSet(pc, st, el, h, cmd, de, res, run, link, rec) ==
    /\ land_pc' = pc
    /\ land_stage' = st
    /\ land_elapsed' = el
    /\ current_height' = h
    /\ last_link_cmd' = cmd
    /\ descent_end' = de
    /\ land_result' = res
    /\ experiment_running' = run
    /\ land_link' = link
    /\ land_recording' = rec

\* leave through the finally clause: experiment_running = False, _cleanup
LandFinish(cmd, de, res) ==
    LandSet("finished", land_stage, land_elapsed, current_height, cmd, de,
            res, FALSE, FALSE, FALSE)

\* where _phase_landing goes when the controlled descent has returned
phase_landing_strict(reached) == IF reached THEN "land" ELSE "finished"
phase_landing(reached) == "land"

\* initialize_system, and for the direct profile the head of
\* run_landing_experiment (experiment_running, start_recording)
LandInitialize(profile, outcome) ==
    /\ land_pc = "start"
    /\ land_profile' = profile
    /\ CASE outcome = "ok" ->
               LandSet("takeoff", 0, 0, current_height, last_link_cmd,
                       descent_end, land_result, TRUE, TRUE, TRUE)
         [] outcome = "connect" ->
               LandSet("finished", 0, 0, current_height, last_link_cmd,
                       descent_end, "false", FALSE, FALSE, FALSE)
         [] outcome = "recording" ->
               \* the multi-stage profile returns before its try block and
               \* keeps the link; the direct profile runs _cleanup
               LandSet("finished", 0, 0, current_height, last_link_cmd,
                       descent_end, "false", FALSE, profile = "multi", FALSE)
    /\ UNCHANGED <<mgrVars, flightVars, demoVars, notLand>>

\* tello.takeoff()
LandTakeoff(ok) ==
    /\ land_pc = "takeoff"
    /\ IF ok
       THEN LandSet(IF land_profile = "multi" THEN "hover" ELSE "climb",
                    0, 0, current_height, "takeoff", descent_end,
                    land_result, experiment_running, land_link,
                    land_recording)
       ELSE LandFinish("takeoff", descent_end, "false")
    /\ UNCHANGED land_profile
    /\ UNCHANGED <<mgrVars, flightVars, demoVars, notLand>>

\* one pass of the loop of _hover_at_height
HoverTick(h, read_ok) ==
    /\ land_pc = "hover"
    /\ IF land_elapsed < MaxLoopTicks
       THEN IF read_ok
            THEN LandSet("hover", land_stage, land_elapsed + 1, h, "rc",
                         descent_end, land_result, experiment_running,
                         land_link, land_recording)
            ELSE LandFinish(last_link_cmd, descent_end, "false")
       ELSE LandSet("descend_entry", land_stage + 1, 0, current_height,
                    last_link_cmd, "none", land_result, experiment_running,
                    land_link, land_recording)
    /\ UNCHANGED land_profile
    /\ UNCHANGED <<mgrVars, flightVars, demoVars, notLand>>

\* _descend_to_height has returned: the next statement of
\* execute_landing_experiment
DescentReturns(h, cmd, how) ==
    LandSet(IF land_stage < FinalStage THEN "hover" ELSE "land", land_stage,
            0, h, cmd, how, land_result, experiment_running, land_link,
            land_recording)

\* the head of _descend_to_height
DescendEntry(h, read_ok) ==
    /\ land_pc = "descend_entry"
    /\ IF ~read_ok
       THEN LandFinish(last_link_cmd, descent_end, "false")
       ELSE IF h <= StageTarget[land_stage]
            THEN DescentReturns(h, last_link_cmd, "skipped")
            ELSE LandSet("descend", land_stage, 0, h, last_link_cmd,
                         descent_end, land_result, experiment_running,
                         land_link, land_recording)
    /\ UNCHANGED land_profile
    /\ UNCHANGED <<mgrVars, flightVars, demoVars, notLand>>

\* one pass of the loop of _descend_to_height
DescendTick(h, read_ok) ==
    /\ land_pc = "descend"
    /\ IF ~read_ok
       THEN LandFinish(last_link_cmd, descent_end, "false")
       ELSE IF at_or_below(h, StageTarget[land_stage])
            THEN DescentReturns(h, last_link_cmd, "tolerance")
            ELSE IF land_elapsed + 1 >= MaxLoopTicks
                 THEN DescentReturns(h, "rc", "timeout")
                 ELSE LandSet("descend", land_stage, land_elapsed + 1, h,
                              "rc", descent_end, land_result,
                              experiment_running, land_link, land_recording)
    /\ UNCHANGED land_profile
    /\ UNCHANGED <<mgrVars, flightVars, demoVars, notLand>>

\* _controlled_flight_to_target has returned `reached` to _phase_takeoff or
\* to _phase_landing
ControlledReturns(h, cmd, reached) ==
    IF land_pc = "climb"
    THEN IF reached
         THEN LandSet("descent", land_stage, 0, h, cmd, descent_end,
                      land_result, experiment_running, land_link,
                      land_recording)
         ELSE LandFinish(cmd, descent_end, "false")
    ELSE IF phase_landing(reached) = "land"
         THEN LandSet("land", land_stage, 0, h, cmd,
                      IF reached THEN "tolerance" ELSE "timeout",
                      land_result, experiment_running, land_link,
                      land_recording)
         ELSE LandFinish(cmd, IF reached THEN "tolerance" ELSE "timeout",
                         "false")

\* one pass of the loop of _controlled_flight_to_target
ControlledFlightTick(h, read_ok) ==
    /\ land_pc \in {"climb", "descent"}
    /\ IF land_elapsed >= MaxLoopTicks
       THEN ControlledReturns(current_height, last_link_cmd, FALSE)
       ELSE IF ~read_ok
            THEN LandSet(land_pc, land_stage, land_elapsed + 1,
                         current_height, last_link_cmd, descent_end,
                         land_result, experiment_running, land_link,
                         land_recording)
            ELSE IF pos_error_below(h, IF land_pc = "climb"
                                          THEN takeoff_height ELSE 10,
                                    IF land_pc = "climb" THEN 10 ELSE 5)
                 THEN ControlledReturns(h, "rc", TRUE)
                 ELSE LandSet(land_pc, land_stage, land_elapsed + 1, h, "rc",
                              descent_end, land_result, experiment_running,
                              land_link, land_recording)
    /\ UNCHANGED land_profile
    /\ UNCHANGED <<mgrVars, flightVars, demoVars, notLand>>

\* tello.land(), the return and the finally clause
LandStep(ok) ==
    /\ land_pc = "land"
    /\ LandFinish("land", descent_end, IF ok THEN "true" ELSE "false")
    /\ UNCHANGED land_profile
    /\ UNCHANGED <<mgrVars, flightVars, demoVars, notLand>>

InitLand ==
    /\ land_profile = "none"
    /\ land_pc = "start"
    /\ land_stage = 0
    /\ land_elapsed = 0
    /\ current_height = 0
    /\ last_link_cmd = "none"
    /\ descent_end = "none"
    /\ land_result = "none"
    /\ experiment_running = FALSE
    /\ land_link = FALSE
    /\ land_recording = FALSE

NextLand ==
    \/ \E profile \in {"multi", "direct"},
          outcome \in {"ok", "connect", "recording"} :
          LandInitialize(profile, outcome)
    \/ \E ok \in BOOLEAN : LandTakeoff(ok)
    \/ \E h \in LandingHeights, read_ok \in BOOLEAN : HoverTick(h, read_ok)
    \/ \E h \in LandingHeights, read_ok \in BOOLEAN : DescendEntry(h, read_ok)
    \/ \E h \in LandingHeights, read_ok \in BOOLEAN : DescendTick(h, read_ok)
    \/ \E h \in LandingHeights, read_ok \in BOOLEAN :
          ControlledFlightTick(h, read_ok)
    \/ \E ok \in BOOLEAN : LandStep(ok)

\* ------------------------------------------------------------------------
\* The altitude experiment: experiment_config, AltitudeExperiment, main

\* experiment_config as shipped; the descent speed is kept in cm/s
DefaultConfig ==
    [cycles |-> 3, target |-> 150, final |-> 30, speed |-> 20, hover |-> 1]

\* the shipped configuration with one constant edited
AltConfigs ==
    {DefaultConfig}
        \cup {[DefaultConfig EXCEPT !.cycles = v] : v \in {-1, 0, 1}}
        \cup {[DefaultConfig EXCEPT !.target = v] : v \in {29, 30, 31, 500, 501}}
        \cup {[DefaultConfig EXCEPT !.final = v] : v \in {4, 5}}
        \cup {[DefaultConfig EXCEPT !.speed = v] : v \in {-10, 0}}
        \cup {[DefaultConfig EXCEPT !.hover = v] : v \in {-1, 0}}

\* validate_parameters: the rules the configuration breaks
validate_parameters_lax(c) ==
    {e \in {"cycles", "order", "speed", "hover", "ceiling", "floor"} :
        \/ e = "cycles" /\ c.cycles <= 0
        \/ e = "order" /\ c.target < c.final
        \/ e = "speed" /\ c.speed <= 0
        \/ e = "hover" /\ c.hover < 0
        \/ e = "ceiling" /\ c.target > 500
        \/ e = "floor" /\ c.final < 5}
validate_parameters(c) ==
    {e \in {"cycles", "order", "speed", "hover", "ceiling", "floor"} :
        \/ e = "cycles" /\ c.cycles <= 0
        \/ e = "order" /\ c.target <= c.final
        \/ e = "speed" /\ c.speed <= 0
        \/ e = "hover" /\ c.hover < 0
        \/ e = "ceiling" /\ c.target > 500
        \/ e = "floor" /\ c.final < 5}

\* get_current_height returns None when every source fails
NoReading == 0 - 1
AltHeights == {150, 60, 45, 30}
\* readings while _rc_move_down runs
RcHeights == {150, 30}

\* _rc_move_down: the loop sleeps 0.2 s a pass and gives up after 10 s
RcBudgetTicks == 50
\* passes of the loop that make up one second
StallTicks == 5

\* the positions of main's try block
RunPcs == {"start", "init", "begin", "takeoff", "cycle", "descent",
           "rc_start", "rc_loop", "cycle_end", "land"}

\* main up to initialize_systems: the summary and the operator's confirmation
AltLaunch(cfg, confirm) ==
    /\ alt_pc = "start"
    /\ alt_cfg' = cfg
    /\ LET summary_raises == cfg.speed = 0    \* division by DESCENT_SPEED * 100
       IN /\ alt_pc' = IF summary_raises \/ ~confirm THEN "finally" ELSE "init"
          /\ alt_how' = IF summary_raises THEN "exception"
                        ELSE IF ~confirm THEN "cancelled" ELSE alt_how
    /\ UNCHANGED <<experiment_start_time, alt_controller, alt_link,
                   alt_recording, alt_in_flight, alt_flight_cmd,
                   current_cycle, rc_distance, start_height, alt_height,
                   alt_elapsed, alt_unchanged, alt_rc, alt_report, alt_log>>
    /\ UNCHANGED <<mgrVars, flightVars, demoVars, notAlt>>

\* initialize_systems and main's test of its result
AltInitialize(outcome) ==
    /\ alt_pc = "init"
    /\ LET valid == validate_parameters(alt_cfg) = {}
       IN /\ alt_link' = (valid /\ outcome # "connect")
          /\ alt_controller' = (valid /\ outcome # "connect")
          /\ alt_pc' = IF valid /\ outcome = "ok" THEN "begin" ELSE "finally"
          /\ alt_how' = IF valid /\ outcome = "ok" THEN alt_how
                        ELSE "init_failed"
    /\ UNCHANGED <<alt_cfg, experiment_start_time, alt_recording,
                   alt_in_flight, alt_flight_cmd, current_cycle, rc_distance,
                   start_height, alt_height, alt_elapsed, alt_unchanged,
                   alt_rc, alt_report, alt_log>>
    /\ UNCHANGED <<mgrVars, flightVars, demoVars, notAlt>>

\* start_experiment up to start_recording
AltBegin(rec_ok) ==
    /\ alt_pc = "begin"
    /\ experiment_start_time' = TRUE
    /\ alt_recording' = rec_ok
    /\ alt_pc' = IF rec_ok THEN "takeoff" ELSE "finally"
    /\ alt_how' = IF rec_ok THEN alt_how ELSE "failure"
    /\ UNCHANGED <<alt_cfg, alt_controller, alt_link, alt_in_flight,
                   alt_flight_cmd, current_cycle, rc_distance, start_height,
                   alt_height, alt_elapsed, alt_unchanged, alt_rc,
                   alt_report, alt_log>>
    /\ UNCHANGED <<mgrVars, flightVars, demoVars, notAlt>>

\* start_experiment: controller.takeoff()
AltTakeoff(ok) ==
    /\ alt_pc = "takeoff"
    /\ alt_flight_cmd' = TRUE
    /\ alt_in_flight' = ok
    /\ alt_pc' = IF ok THEN "cycle" ELSE "finally"
    /\ alt_how' = IF ok THEN alt_how ELSE "failure"
    /\ UNCHANGED <<alt_cfg, experiment_start_time, alt_controller, alt_link,
                   alt_recording, current_cycle, rc_distance, start_height,
                   alt_height, alt_elapsed, alt_unchanged, alt_rc,
                   alt_report, alt_log>>
    /\ UNCHANGED <<mgrVars, flightVars, demoVars, notAlt>>

\* execute_single_cycle: the climb to the target height and the hover; a
\* hover that raises fails the cycle and breaks the loop of start_experiment
AltCycleStart(hover_ok) ==
    /\ alt_pc = "cycle"
    /\ current_cycle' = current_cycle + 1
    /\ alt_flight_cmd' = TRUE
    /\ alt_pc' = IF hover_ok THEN "descent" ELSE "land"
    /\ UNCHANGED <<alt_cfg, alt_how, experiment_start_time, alt_controller,
                   alt_link, alt_recording, alt_in_flight, rc_distance,
                   start_height, alt_height, alt_elapsed, alt_unchanged,
                   alt_rc, alt_report, alt_log>>
    /\ UNCHANGED <<mgrVars, flightVars, demoVars, notAlt>>

\* execute_controlled_descent: the distance handed to _rc_move_down, or
\* NoReading when the descent is done with move commands alone
DescentPlan(h, mid, move_ok, second_ok) ==
    LET cur == IF h = NoReading THEN alt_cfg.target ELSE h
        actual == cur - alt_cfg.final
        remaining == mid - alt_cfg.final
    IN IF actual > 50 THEN actual
       ELSE IF actual > 20
            THEN IF ~move_ok
                 THEN IF mid # NoReading /\ mid > alt_cfg.final + 5
                      THEN remaining ELSE NoReading
                 ELSE IF mid = NoReading \/ remaining <= 5 THEN NoReading
                      ELSE IF remaining <= 20
                           THEN IF second_ok \/ mid <= alt_cfg.final + 5
                                THEN NoReading ELSE remaining
                           ELSE remaining
            ELSE IF move_ok THEN NoReading ELSE actual

AltDescentEntry(h, mid, move_ok, second_ok) ==
    /\ alt_pc = "descent"
    /\ LET d == DescentPlan(h, mid, move_ok, second_ok)
       IN /\ rc_distance' = d
          /\ alt_pc' = IF d = NoReading THEN "cycle_end" ELSE "rc_start"
    /\ UNCHANGED <<alt_cfg, alt_how, experiment_start_time, alt_controller,
                   alt_link, alt_recording, alt_in_flight, alt_flight_cmd,
                   current_cycle, start_height, alt_height, alt_elapsed,
                   alt_unchanged, alt_rc, alt_report, alt_log>>
    /\ UNCHANGED <<mgrVars, flightVars, demoVars, notAlt>>

\* the locals of _rc_move_down go out of scope
RcLocalsGone ==
    /\ rc_distance' = NoReading
    /\ start_height' = NoReading
    /\ alt_height' = NoReading
    /\ alt_elapsed' = 0
    /\ alt_unchanged' = 0

\* _rc_move_down up to its loop: read start_height, send the descent command
AltRcStart(h, send_ok) ==
    /\ alt_pc = "rc_start"
    /\ IF send_ok
       THEN /\ start_height' = h
            /\ alt_height' = h
            /\ alt_rc' = "down"
            /\ alt_pc' = "rc_loop"
            /\ UNCHANGED <<rc_distance, alt_elapsed, alt_unchanged>>
       ELSE /\ RcLocalsGone
            /\ alt_pc' = "cycle_end"
            /\ UNCHANGED alt_rc
    /\ UNCHANGED <<alt_cfg, alt_how, experiment_start_time, alt_controller,
                   alt_link, alt_recording, alt_in_flight, alt_flight_cmd,
                   current_cycle, alt_report, alt_log>>
    /\ UNCHANGED <<mgrVars, flightVars, demoVars, notAlt>>

\* the test that ends the loop of _rc_move_down
rc_close_enough(h) ==
    h # NoReading /\ start_height # NoReading
        /\ start_height - h >= rc_distance - 5

\* one pass of the loop of _rc_move_down, and the stop command after it
AltRcTick(h, stop_ok) ==
    /\ alt_pc = "rc_loop"
    /\ IF alt_elapsed >= RcBudgetTicks \/ rc_close_enough(h)
       THEN /\ alt_rc' = IF stop_ok THEN "zero" ELSE alt_rc
            /\ alt_pc' = "cycle_end"
            /\ RcLocalsGone
       ELSE /\ alt_height' = h
            /\ alt_elapsed' = alt_elapsed + 1
            /\ alt_unchanged' = IF h # NoReading /\ h = alt_height
                                THEN alt_unchanged + 1 ELSE 0
            /\ UNCHANGED <<alt_pc, alt_rc, rc_distance, start_height>>
    /\ UNCHANGED <<alt_cfg, alt_how, experiment_start_time, alt_controller,
                   alt_link, alt_recording, alt_in_flight, alt_flight_cmd,
                   current_cycle, alt_report, alt_log>>
    /\ UNCHANGED <<mgrVars, flightVars, demoVars, notAlt>>

\* the cycle returns True: the loop of start_experiment goes on or ends
AltCycleEnd ==
    /\ alt_pc = "cycle_end"
    /\ alt_pc' = IF current_cycle < alt_cfg.cycles THEN "cycle" ELSE "land"
    /\ UNCHANGED <<alt_cfg, alt_how, experiment_start_time, alt_controller,
                   alt_link, alt_recording, alt_in_flight, alt_flight_cmd,
                   current_cycle, rc_distance, start_height, alt_height,
                   alt_elapsed, alt_unchanged, alt_rc, alt_report, alt_log>>
    /\ UNCHANGED <<mgrVars, flightVars, demoVars, notAlt>>

\* start_experiment: the final controller.land() and the return to main
AltLand(ok) ==
    /\ alt_pc = "land"
    /\ alt_flight_cmd' = TRUE
    /\ alt_in_flight' = IF ok THEN FALSE ELSE alt_in_flight
    /\ alt_how' = IF ok THEN "success" ELSE "failure"
    /\ alt_pc' = "finally"
    /\ UNCHANGED <<alt_cfg, experiment_start_time, alt_controller, alt_link,
                   alt_recording, current_cycle, rc_distance, start_height,
                   alt_height, alt_elapsed, alt_unchanged, alt_rc,
                   alt_report, alt_log>>
    /\ UNCHANGED <<mgrVars, flightVars, demoVars, notAlt>>

\* KeyboardInterrupt anywhere in main's try block
AltInterrupt ==
    /\ alt_pc \in RunPcs
    /\ alt_how' = "interrupt"
    /\ alt_pc' = "finally"
    /\ RcLocalsGone
    /\ UNCHANGED <<alt_cfg, experiment_start_time, alt_controller, alt_link,
                   alt_recording, alt_in_flight, alt_flight_cmd,
                   current_cycle, alt_rc, alt_report, alt_log>>
    /\ UNCHANGED <<mgrVars, flightVars, demoVars, notAlt>>

\* finalize_experiment: nothing when experiment_start_time is None (the
\* subtraction raises and the except clause only logs)
finalize_experiment(started, has_recorder) ==
    IF ~started THEN <<>>
    ELSE (IF has_recorder THEN <<"stop_recording">> ELSE <<>>) \o <<"report">>

\* cleanup
cleanup(has_recorder, flying, link) ==
    (IF has_recorder THEN <<"stop_recording">> ELSE <<>>)
        \o (IF has_recorder /\ flying THEN <<"emergency">> ELSE <<>>)
        \o <<"disconnect">>

\* main's finally clause: finalize_experiment, then cleanup
AltFinally(cmd_ok) ==
    /\ alt_pc = "finally"
    /\ alt_log' = finalize_experiment(experiment_start_time, alt_controller)
                    \o cleanup(alt_controller, alt_in_flight, alt_link)
    /\ alt_report' = experiment_start_time
    /\ alt_recording' = IF alt_controller THEN FALSE ELSE alt_recording
    /\ alt_in_flight' = IF alt_controller /\ alt_in_flight /\ cmd_ok
                        THEN FALSE ELSE alt_in_flight
    /\ alt_link' = FALSE
    /\ alt_pc' = "exited"
    /\ UNCHANGED <<alt_cfg, alt_how, experiment_start_time, alt_controller,
                   alt_flight_cmd, current_cycle, rc_distance, start_height,
                   alt_height, alt_elapsed, alt_unchanged, alt_rc>>
    /\ UNCHANGED <<mgrVars, flightVars, demoVars, notAlt>>

InitAlt ==
    /\ alt_pc = "start"
    /\ alt_cfg = DefaultConfig
    /\ alt_how = "none"
    /\ experiment_start_time = FALSE
    /\ alt_controller = FALSE
    /\ alt_link = FALSE
    /\ alt_recording = FALSE
    /\ alt_in_flight = FALSE
    /\ alt_flight_cmd = FALSE
    /\ current_cycle = 0
    /\ rc_distance = NoReading
    /\ start_height = NoReading
    /\ alt_height = NoReading
    /\ alt_elapsed = 0
    /\ alt_unchanged = 0
    /\ alt_rc = "none"
    /\ alt_report = FALSE
    /\ alt_log = <<>>

NextAlt ==
    \/ \E cfg \in AltConfigs, confirm \in BOOLEAN : AltLaunch(cfg, confirm)
    \/ \E outcome \in {"ok", "connect", "battery"} : AltInitialize(outcome)
    \/ \E rec_ok \in BOOLEAN : AltBegin(rec_ok)
    \/ \E ok \in BOOLEAN : AltTakeoff(ok)
    \/ \E hover_ok \in BOOLEAN : AltCycleStart(hover_ok)
    \/ \E h, mid \in AltHeights \cup {NoReading}, move_ok, second_ok \in BOOLEAN :
          AltDescentEntry(h, mid, move_ok, second_ok)
    \/ \E h \in RcHeights \cup {NoReading}, send_ok \in BOOLEAN :
          AltRcStart(h, send_ok)
    \/ \E h \in RcHeights \cup {NoReading}, stop_ok \in BOOLEAN :
          AltRcTick(h, stop_ok)
    \/ AltCycleEnd
    \/ \E ok \in BOOLEAN : AltLand(ok)
    \/ AltInterrupt
    \/ \E cmd_ok \in BOOLEAN : AltFinally(cmd_ok)

\* ------------------------------------------------------------------------
\* The interactive commander: TelloCommander and main

\* the exit flags of config.settings: AUTO_SAVE_ON_EXIT,
\* CREATE_SESSION_BACKUP, GENERATE_SESSION_REPORT
ExitFlags == [save : BOOLEAN, backup : BOOLEAN, report : BOOLEAN]

\* _auto_save_media_data
auto_save_media_data(s) ==
    IF ~s.flags.save THEN s
    ELSE LET stop_rec == s.made /\ s.video_recording
         IN [s EXCEPT !.video_recording = IF stop_rec THEN FALSE ELSE @,
                      !.rec_stops = IF stop_rec THEN @ + 1 ELSE @,
                      !.stat_updates = IF stop_rec THEN @ + 1 ELSE @,
                      !.streaming = IF s.made THEN FALSE ELSE @,
                      !.backups = IF s.flags.backup THEN @ + 1 ELSE @,
                      !.reports = IF s.flags.report THEN @ + 1 ELSE @]

\* TelloCommander.disconnect
disconnect(s, land_ok) ==
    LET stop_rec == s.made /\ s.streaming /\ s.video_recording
    IN [s EXCEPT !.flight_recording = IF s.made THEN FALSE ELSE @,
                 !.data_stops = IF s.made /\ s.flight_recording
                                THEN @ + 1 ELSE @,
                 !.streaming = IF s.made THEN FALSE ELSE @,
                 !.video_recording = IF stop_rec THEN FALSE ELSE @,
                 !.rec_stops = IF stop_rec THEN @ + 1 ELSE @,
                 !.in_flight = IF s.made /\ s.in_flight /\ land_ok
                               THEN FALSE ELSE @,
                 !.link = FALSE,
                 !.ends = IF s.link THEN @ + 1 ELSE @]

\* TelloCommander.shutdown
shutdown(s, land_ok) ==
    disconnect(auto_save_media_data([s EXCEPT !.running = FALSE]), land_ok)

\* main up to interactive_mode: the settings, the prompt, connect
CliStart(flags, answer, connect_ok) ==
    /\ cli_pc = "start"
    /\ cli' = [cli EXCEPT !.flags = flags,
                          !.made = answer /\ connect_ok,
                          !.link = answer /\ connect_ok]
    /\ cli_pc' = IF answer /\ connect_ok THEN "interactive" ELSE "finally"
    /\ UNCHANGED <<mgrVars, flightVars, demoVars, notCli>>

\* _execute_command for the commands that change what shutdown has to undo
CliCommand(cmd, ok) ==
    /\ cli_pc = "interactive"
    /\ cli' =
         CASE cmd = "takeoff" ->
                  IF ok THEN [cli EXCEPT !.in_flight = TRUE,
                                         !.flight_recording = TRUE]
                  ELSE cli
           [] cmd = "land" ->
                  IF ok THEN [cli EXCEPT !.in_flight = FALSE,
                                         !.flight_recording = FALSE]
                  ELSE cli
           [] cmd = "stream start" -> [cli EXCEPT !.streaming = ok \/ @]
           [] cmd = "stream stop" ->
                  [cli EXCEPT !.streaming = FALSE,
                              !.video_recording = IF cli.streaming
                                                  THEN FALSE ELSE @]
           [] cmd = "record start" ->
                  [cli EXCEPT !.video_recording = (cli.streaming /\ ok) \/ @]
           [] cmd = "record stop" -> [cli EXCEPT !.video_recording = FALSE]
    /\ UNCHANGED cli_pc
    /\ UNCHANGED <<mgrVars, flightVars, demoVars, notCli>>

\* quit, exit, or an interrupt caught by interactive_mode: the loop is left
CliQuit ==
    /\ cli_pc = "interactive"
    /\ cli_pc' = "finally"
    /\ UNCHANGED cli
    /\ UNCHANGED <<mgrVars, flightVars, demoVars, notCli>>

\* _signal_handler: shutdown, then sys.exit(0) unwinds main into its finally
CliSignal(land_ok) ==
    /\ cli_pc \in {"start", "interactive"}
    /\ cli' = shutdown(cli, land_ok)
    /\ cli_pc' = "finally_again"
    /\ UNCHANGED <<mgrVars, flightVars, demoVars, notCli>>

\* main's finally clause: shutdown; _cleanup_on_exit then finds running False
CliFinally(land_ok) ==
    /\ cli_pc \in {"finally", "finally_again"}
    /\ cli' = shutdown(cli, land_ok)
    /\ cli_pc' = "exited"
    /\ UNCHANGED <<mgrVars, flightVars, demoVars, notCli>>

InitCli ==
    /\ cli_pc = "start"
    /\ cli = [flags |-> [save |-> TRUE, backup |-> TRUE, report |-> TRUE],
              made |-> FALSE, link |-> FALSE, running |-> TRUE,
              video_recording |-> FALSE, streaming |-> FALSE,
              flight_recording |-> FALSE, in_flight |-> FALSE,
              rec_stops |-> 0, data_stops |-> 0, stat_updates |-> 0,
              backups |-> 0, reports |-> 0, ends |-> 0]

CliCommands == {"takeoff", "land", "stream start", "stream stop",
                "record start", "record stop"}

NextCli ==
    \/ \E flags \in ExitFlags, answer, connect_ok \in BOOLEAN :
          CliStart(flags, answer, connect_ok)
    \/ \E cmd \in CliCommands, ok \in BOOLEAN : CliCommand(cmd, ok)
    \/ CliQuit
    \/ \E land_ok \in BOOLEAN : CliSignal(land_ok)
    \/ \E land_ok \in BOOLEAN : CliFinally(land_ok)

\* ------------------------------------------------------------------------
\* SafetyManager.check_flight_safety called with a connected link

\* the limits config.settings may hold
SpeedLimits == {20, SPEED_LIMIT}
AltitudeLimits == {FLIGHT_ALTITUDE_LIMIT, 150}

\* distances and angles around the limits; 0 stands for None
GateValues ==
    {0, 360, 361, -360, -361}
        \cup UNION {{l - 1, l, l + 1} : l \in SpeedLimits \cup AltitudeLimits}

GateBatteries == {BATTERY_CRITICAL_THRESHOLD, BATTERY_CRITICAL_THRESHOLD + 1, 80}

\* no call under way; answer is what the last call gave its caller
NoCall(answer) == [called |-> FALSE, answer |-> answer]

\* a caller hands a command to the gate and gets its answer
GateCall(command, value, probe_ok, batt, speed_limit, alt_limit) ==
    /\ ~gate_call.called
    /\ gate_call' =
         [called |-> TRUE, command |-> command, value |-> value,
          probe_ok |-> probe_ok, batt |-> batt, speed_limit |-> speed_limit,
          alt_limit |-> alt_limit,
          result |-> check_flight_safety(command, value, TRUE, probe_ok,
                                         batt, speed_limit, alt_limit)]
    /\ UNCHANGED <<mgrVars, flightVars, demoVars, notGate>>

\* the caller has dealt with the answer
GateReturn ==
    /\ gate_call.called
    /\ gate_call' = NoCall(gate_call.result)
    /\ UNCHANGED <<mgrVars, flightVars, demoVars, notGate>>

InitGate == gate_call = NoCall("none")

NextGate ==
    \/ GateReturn
    \/ \E command \in MoveCommands \cup RotateCommands \cup {"takeoff"},
       value \in GateValues, probe_ok \in BOOLEAN, batt \in GateBatteries,
       speed_limit \in SpeedLimits, alt_limit \in AltitudeLimits :
       GateCall(command, value, probe_ok, batt, speed_limit, alt_limit)

\* ------------------------------------------------------------------------
\* compute_control called directly on the attitude controller

\* samples with a level attitude and batteries around the 20 percent mark
ComputeSamples ==
    {[battery_percent |-> b, pitch_deg |-> 0, roll_deg |-> 0] :
        b \in {0, 15, 19, 20, 50}}

NoCompute == [called |-> FALSE]

ComputeControl(c, sensor, out) ==
    LET r == compute_control(state, c, sensor, out)
    IN /\ state' = r.st
       /\ ev' = Event("compute_control", c, r.res # "raise", r.res,
                      state[c] # EMERGENCY_STOP /\ r.st[c] = EMERGENCY_STOP)
       /\ ctl_call' = [called |-> TRUE, c |-> c,
                       battery_percent |-> sensor.battery_percent,
                       res |-> r.res, state_after |-> r.st[c]]
       /\ UNCHANGED <<target_setpoint, mgrOnly>>
       /\ UNCHANGED <<flightVars, demoVars, notCompute>>

\* a float is either NaN or a number; the model's numbers are integers
Float(v) == [nan |-> FALSE, v |-> v]
NaN == [nan |-> TRUE, v |-> 0]

\* numpy.clip(x, lo, hi) = minimum(maximum(x, lo), hi); both propagate NaN
np_clip(x, lo, hi) ==
    IF x.nan THEN x
    ELSE IF x.v < lo THEN Float(lo)
    ELSE IF x.v > hi THEN Float(hi)
    ELSE x

\* ControlCommand(...) : __post_init__ clips the four fields
ControlCommand(roll, pitch, throttle, yaw) ==
    [roll |-> np_clip(roll, 0 - 100, 100),
     pitch |-> np_clip(pitch, 0 - 100, 100),
     throttle |-> np_clip(throttle, 0 - 100, 100),
     yaw |-> np_clip(yaw, 0 - 100, 100)]

\* PositionController.config defaults
max_altitude_cm == 300
min_altitude_cm == 20
max_tilt_angle_deg == 25
emergency_descent_rate == -20

\* _apply_safety_limits: h is the height the method reads (time of flight
\* if positive, else height_cm); the halving is exact on the even throttles
\* of the model
apply_safety_limits(throttle, h, sensor) ==
    LET t1 == IF h > max_altitude_cm
              THEN (IF throttle < 0 - 10 THEN throttle ELSE 0 - 10)
              ELSE IF h < min_altitude_cm
              THEN (IF throttle > 10 THEN throttle ELSE 10)
              ELSE throttle
        t2 == IF \/ Abs(sensor.pitch_deg) > max_tilt_angle_deg
                 \/ Abs(sensor.roll_deg) > max_tilt_angle_deg
              THEN t1 \div 2
              ELSE t1
    IN IF sensor.battery_percent < 15 THEN emergency_descent_rate ELSE t2

\* PositionController.compute_control: the base safety check first (a
\* failure returns emergency_stop()), then the four PID outputs, of which
\* the throttle goes through _apply_safety_limits
position_compute_control(st, c, sensor, h, pid) ==
    IF ~safety_check(sensor)
    THEN LET e == emergency_stop(st, c)
         IN [st |-> e.st, res |-> e.cmd,
             cmd |-> ControlCommand(Float(0), Float(0), Float(0), Float(0))]
    ELSE [st |-> st, res |-> "ctl",
          cmd |-> ControlCommand(Float(pid.roll), Float(0 - pid.x),
                                 Float(apply_safety_limits(pid.throttle, h,
                                                           sensor)),
                                 Float(pid.yaw))]

\* inputs of the position controller: samples, heights and PID outputs
PosSamples ==
    {[battery_percent |-> b, pitch_deg |-> p, roll_deg |-> 0] :
        b \in {10, 14, 15, 50}, p \in {0, 30}}
PosHeights == {10, 100, 350}
PidOutputs ==
    {[roll |-> 0, x |-> 20, throttle |-> t, yaw |-> 0] : t \in {0 - 40, 0, 40}}

\* compute_control of a PositionController instance (the one the trajectory
\* controller owns)
PosComputeControl(sensor, h, pid) ==
    LET r == position_compute_control(state, TrajInner, sensor, h, pid)
    IN /\ state' = r.st
       /\ ev' = Event("compute_control", TrajInner, TRUE, r.res,
                      state[TrajInner] # EMERGENCY_STOP
                          /\ r.st[TrajInner] = EMERGENCY_STOP)
       /\ ctl_call' = [called |-> TRUE, c |-> TrajInner,
                       battery_percent |-> sensor.battery_percent,
                       res |-> r.res, state_after |-> r.st[TrajInner],
                       cmd |-> r.cmd]
       /\ UNCHANGED <<target_setpoint, mgrOnly>>
       /\ UNCHANGED <<flightVars, demoVars, notCompute>>

\* ControlCommand built directly from four floats
CommandValues ==
    {NaN} \cup {Float(v) : v \in {0 - 150, 0 - 100, 0, 100, 101}}

NewControlCommand(roll, pitch, throttle, yaw) ==
    /\ ctl_call' = [called |-> TRUE, c |-> "ControlCommand",
                    args |-> <<roll, pitch, throttle, yaw>>,
                    cmd |-> ControlCommand(roll, pitch, throttle, yaw)]
    /\ UNCHANGED <<mgrVars, flightVars, demoVars, notCompute>>

NextCommand ==
    \E roll, pitch, throttle, yaw \in CommandValues :
        NewControlCommand(roll, pitch, throttle, yaw)

InitCompute == ctl_call = NoCompute

NextCompute ==
    \/ CtlActivate(Att)
    \/ CtlDeactivate(Att)
    \/ CtlSetTarget(Att)
    \/ CtlEmergencyStop(Att)
    \/ CtlReset(Att)
    \/ \E s \in ComputeSamples, out \in {"ok", "raise"} :
          ComputeControl(Att, s, out)
    \/ \E s \in PosSamples, h \in PosHeights, pid \in PidOutputs :
          PosComputeControl(s, h, pid)

\* ------------------------------------------------------------------------
\* SpecSensor: update_sensor_data running next to the control loop's thread
\* ------------------------------------------------------------------------
NumCallbacks == 2
Callbacks == 1..NumCallbacks

\* update_sensor_data, first statement: the sample is stored
SensorStore(s) ==
    /\ sensor_cb.pc = 0
    /\ latest_sensor_data' = s
    /\ sensor_cb' = [sensor_cb EXCEPT !.pc = 1]
    /\ ev' = Idle
    /\ UNCHANGED <<state, target_setpoint, safety_check_enabled,
                   auto_fallback_enabled, controllers, controller_errors,
                   active_controller, current_control_mode, is_running,
                   since_success, raise_streak>>
    /\ UNCHANGED <<flightVars, demoVars, notSensor>>

\* update_sensor_data, one turn of the loop over sensor_data_callbacks: the
\* callback is called with the sample; an exception it raises is logged
\* and the loop goes on
SensorCallback(raises) ==
    /\ sensor_cb.pc \in Callbacks
    /\ sensor_cb' = [pc |-> IF sensor_cb.pc = NumCallbacks
                            THEN 0 ELSE sensor_cb.pc + 1,
                     given |-> [sensor_cb.given EXCEPT
                                   ![sensor_cb.pc] = latest_sensor_data],
                     raised |-> raises]
    /\ UNCHANGED <<mgrVars, flightVars, demoVars, notSensor>>

InitSensor ==
    sensor_cb = [pc |-> 0, given |-> [i \in Callbacks |-> NoSensor],
                 raised |-> FALSE]

NextSensor ==
    \/ StartControlLoop
    \/ StopControlLoop
    \/ \E s \in SensorSamples : SensorStore(s)
    \/ \E raises \in BOOLEAN : SensorCallback(raises)
    \/ \E out \in {"ok", "raise"} : ExecuteControlCycle(out)
    \/ Tick

\* ------------------------------------------------------------------------
\* SpecSession: start_recording / stop_recording of FlightDataRecorder
\* ("csv") and of VideoStreamHandler ("video") next to the _record_worker
\* thread, statement by statement
\* ------------------------------------------------------------------------
SessionSet(f) == /\ session' = f
                 /\ UNCHANGED <<mgrVars, flightVars, demoVars, notSession>>

\* start_recording: open the file (csv_file and csv_writer, or
\* video_writer), set the flag, start the worker.  Taken here only when no
\* earlier worker is alive.
SessionStart(kind) ==
    /\ session.caller = "idle"
    /\ ~session.recording
    /\ session.worker = "dead"
    /\ SessionSet([session EXCEPT !.kind = kind, !.recording = TRUE,
                                  !.file = "open", !.writer = TRUE,
                                  !.worker = "test", !.last = "none"])

\* stop_recording, up to the join: the flag is cleared
SessionStopFlag ==
    /\ session.caller = "idle"
    /\ session.recording
    /\ SessionSet([session EXCEPT !.recording = FALSE, !.caller = "join"])

\* the join with its 2 s timeout returns: the worker has exited, or it
\* has not and the time is up
SessionJoinReturns ==
    /\ session.caller = "join"
    /\ SessionSet([session EXCEPT !.caller = "close"])

\* csv_file.close() or video_writer.release()
SessionClose ==
    /\ session.caller = "close"
    /\ SessionSet([session EXCEPT !.file = "closed", !.caller = "clear"])

\* csv_file = None, csv_writer = None, or video_writer = None
SessionClear ==
    /\ session.caller = "clear"
    /\ SessionSet([session EXCEPT !.writer = FALSE, !.caller = "idle"])

\* _record_worker: the test of the while loop
WorkerTest ==
    /\ session.worker = "test"
    /\ SessionSet([session EXCEPT
                      !.worker = IF session.recording THEN "collect"
                                 ELSE "dead"])

\* _record_worker: the liveness probe and _collect_drone_data, or
\* get_current_frame; got tells whether there is a row or frame, or that
\* the link (the stream) is gone, which ends the worker
WorkerCollect(got) ==
    /\ session.worker = "collect"
    /\ SessionSet([session EXCEPT
                      !.worker = CASE got = "data" -> "check"
                                   [] got = "nothing" -> "test"
                                   [] got = "lost" -> "dead"])

\* _record_worker: `if data_row and self.csv_writer` or
\* `if frame is not None and self.video_writer`; the video worker resizes
\* the frame before it writes
WorkerCheck ==
    /\ session.worker = "check"
    /\ SessionSet([session EXCEPT
                      !.worker = IF session.writer THEN "write" ELSE "test"])

\* _record_worker: self.csv_writer.writerow(data_row) or
\* self.video_writer.write(resized_frame); "last" is what the call met
WorkerWrite ==
    LET met == IF ~session.writer THEN "no_writer"
               ELSE IF session.file = "closed" THEN "closed"
               ELSE "written"
    IN /\ session.worker = "write"
       /\ SessionSet([session EXCEPT
                         !.worker = IF met = "written" /\ session.kind = "csv"
                                    THEN "flush" ELSE "test",
                         !.last = met])

\* _record_worker of the flight data recorder: self.csv_file.flush(); on a
\* file that is gone or closed it raises, which the worker logs
WorkerFlush ==
    /\ session.worker = "flush"
    /\ SessionSet([session EXCEPT
                      !.worker = "test",
                      !.last = IF ~session.writer \/ session.file = "closed"
                               THEN "flush_failed" ELSE @])

InitSession ==
    session = [kind |-> "csv", recording |-> FALSE, file |-> "none",
               writer |-> FALSE, caller |-> "idle", worker |-> "dead",
               last |-> "none"]

NextSession ==
    \/ \E kind \in {"csv", "video"} : SessionStart(kind)
    \/ SessionStopFlag
    \/ SessionJoinReturns
    \/ SessionClose
    \/ SessionClear
    \/ WorkerTest
    \/ \E got \in {"data", "nothing", "lost"} : WorkerCollect(got)
    \/ WorkerCheck
    \/ WorkerWrite
    \/ WorkerFlush

Init ==
    /\ InitMgr /\ InitFlight /\ InitDemo /\ InitRec /\ InitLand /\ InitAlt
    /\ InitCli /\ InitGate /\ InitCompute /\ InitSensor /\ InitSession

\* ControllerManagerConfig as shipped: safety checks and auto-fallback on
InitGateOn == Init /\ safety_check_enabled = TRUE

\* the manager under its default configuration
SpecMgr == InitGateOn /\ [][NextMgr]_vars

SpecCtl == Init /\ [][NextCtl]_vars

SpecFlight == InitGateOn /\ [][NextFlight]_vars

\* CustomControllerDemo.__init__ enables the safety gate and the fallback
SpecDemo == InitGateOn /\ [][NextDemo]_vars

SpecRec == InitGateOn /\ [][NextRec]_vars

\* the experiment's thread runs on: its loops sleep for a bounded time
SpecLand == InitGateOn /\ [][NextLand]_vars /\ WF_vars(NextLand)

SpecAlt == InitGateOn /\ [][NextAlt]_vars

SpecCli == InitGateOn /\ [][NextCli]_vars

SpecGate == InitGateOn /\ [][NextGate]_vars

SpecCompute == InitGateOn /\ [][NextCompute]_vars

SpecCommand == InitGateOn /\ [][NextCommand]_vars

SpecSensor == InitGateOn /\ [][NextSensor]_vars

SpecSession == InitGateOn /\ [][NextSession]_vars

\* ------------------------------------------------------------------------
\* Properties of the controller manager (SpecMgr)
\* ------------------------------------------------------------------------
GateEnabledCycle == ev'.op = "cycle" /\ safety_check_enabled
                      /\ latest_sensor_data # NoSensor

TiltOrTimeout ==
    \/ Abs(latest_sensor_data.pitch_deg) > 60
    \/ Abs(latest_sensor_data.roll_deg) > 60
    \/ since_success > controller_timeout_s

NoCommandAndEmergency == ev'.cmd = None /\ current_control_mode' = EMERGENCY

\* C1 as stated: a control cycle run with the safety gate enabled and a
\* sample cached, with battery <= 10, or |pitch| or |roll| > 60, or the
\* timeout elapsed, produces no command and ends in Emergency mode.
C1_AsStated ==
    [][ (GateEnabledCycle
          /\ (latest_sensor_data.battery_percent <= 10 \/ TiltOrTimeout))
        => NoCommandAndEmergency ]_vars

\* C1 amended: the same with battery strictly below 10 percent.
C1_GateFailsCycle ==
    [][ (GateEnabledCycle
          /\ (latest_sensor_data.battery_percent < 10 \/ TiltOrTimeout))
        => NoCommandAndEmergency ]_vars

C1_Witness ==
    /\ ev.op = "cycle" /\ ev.cmd = None /\ ~ev.ok
    /\ safety_check_enabled
    /\ latest_sensor_data.battery_percent = 9
    /\ current_control_mode = EMERGENCY
    /\ since_success = 0

\* C2: with auto-fallback enabled and a controller registered as
\* "attitude", once the control law of the active, non-attitude controller
\* has raised on 4 consecutive update calls of the loop, the mode is
\* Attitude and the active controller is the one registered as "attitude".
C2_FallbackAfterFourErrors ==
    (/\ auto_fallback_enabled
     /\ raise_streak.n >= 4
     /\ controllers["attitude"] \notin {None, raise_streak.who})
    => (/\ current_control_mode = ATTITUDE
        /\ active_controller = controllers["attitude"])

\* C9: at most one controller is Active, and an Active controller is the
\* manager's active controller.
C9_OneActive ==
    /\ Cardinality({c \in Ctl : state[c] = ACTIVE}) <= 1
    /\ \A c \in Ctl : state[c] = ACTIVE => active_controller = c

C9_Witness ==
    /\ state[Traj] = ACTIVE /\ active_controller = Traj
    /\ controllers["attitude"] = Att /\ state[Att] = INACTIVE
    /\ controller_errors[Att] = 0

\* C24: with the loop running, a sample cached and the mode Emergency, a
\* control cycle broadcasts the all-zero command.
C24_EmergencyBroadcastsZero ==
    [][(/\ ev'.op = "cycle"
        /\ is_running
        /\ latest_sensor_data # NoSensor
        /\ current_control_mode = EMERGENCY)
         => ev'.cmd = "zero"]_vars

\* C25: in Attitude, Position, Velocity or Trajectory mode the manager has
\* an active controller and that controller is Active.
C25_FlightModeHasActive ==
    current_control_mode \in FlightModes
        => (active_controller # None /\ state[active_controller] = ACTIVE)

\* C29: a control cycle in Manual mode on a sample with battery and tilt
\* within limits leaves the mode Manual.
C29_ManualNeverTimesOut ==
    [][(/\ ev'.op = "cycle"
        /\ is_running
        /\ current_control_mode = MANUAL
        /\ latest_sensor_data # NoSensor
        /\ latest_sensor_data.battery_percent >= 10
        /\ Abs(latest_sensor_data.pitch_deg) <= 60
        /\ Abs(latest_sensor_data.roll_deg) <= 60)
         => current_control_mode' = MANUAL]_vars

\* ------------------------------------------------------------------------
\* Properties of the flight controller and its watchdogs (SpecFlight)
\* ------------------------------------------------------------------------

\* C3: after emergency_stop returns, in_flight is false and both watchdogs
\* are stopped, whatever their running state was and whether or not the link
\* is marked connected.
C3_EmergencyStopClears ==
    [][fev'.op = "emergency_stop"
         => ~in_flight' /\ ~sm_monitoring' /\ ~cm_monitoring']_vars

\* C4: after every takeoff that returns successfully from the ground,
\* in_flight is true and a safety watchdog thread and a connection watchdog
\* thread are running.
C4_TakeoffStartsWatchdogs ==
    [][(fev'.op = "takeoff" /\ fev'.err = "none" /\ ~in_flight)
         => /\ in_flight'
            /\ Running(sm_threads') # {}
            /\ Running(cm_threads') # {}]_vars

\* C5: a connection watchdog thread whose count of consecutive failed probes
\* reaches three marks the link lost, has invoked the loss callback exactly
\* once and has stopped for good; a thread with fewer than three consecutive
\* failures has not invoked the callback.
C5_ThreeFailures ==
    /\ [](\A t \in Threads :
            /\ cm_threads[t].fails <= 3
            /\ cm_threads[t].cbs = IF cm_threads[t].fails = 3 THEN 1 ELSE 0
            /\ cm_threads[t].fails = 3 <=> cm_threads[t].st = "done")
    /\ [][\A t \in Threads :
            /\ (cm_threads[t].fails = 2 /\ cm_threads'[t].fails = 3)
                 => ~connected' /\ ~in_flight'
            /\ cm_threads[t].st = "done"
                 => cm_threads'[t] \in {cm_threads[t], NewThread}]_vars

C5_Witness ==
    \E t \in Threads :
        /\ cm_threads[t] = [st |-> "done", fails |-> 3, cbs |-> 1]
        /\ ~connected
        /\ \E u \in Threads : cm_threads[u].st = "run" /\ cm_threads[u].fails = 2

\* C6: once emergency_landed is set, no further trigger (critical-battery
\* poll, link loss or force_emergency_land) sends an emergency command or
\* invokes the emergency callback.
C6_TriggerOnce ==
    [][emergency_landed => ~fev'.sent /\ ~fev'.called]_vars

\* C7: a takeoff, move, rotate or flip that the safety gate rejects with a
\* SafetyError raises a SafetyError to its caller.
C7_SafetyErrorReachesCaller ==
    [][(fev'.op \in {"takeoff", "move", "rotate", "flip"}
          /\ fev'.inner = "TelloSafetyError")
         => fev'.err = "TelloSafetyError"]_vars

\* C27: at most one connection watchdog thread and at most one safety
\* watchdog thread are running.
C27_OneThreadPerLoop ==
    /\ Cardinality(Running(cm_threads)) <= 1
    /\ Cardinality(Running(sm_threads)) <= 1

\* C30: a takeoff from the ground that fails leaves in_flight false and
\* leaves running no watchdog thread that was not running before the call.
C30_FailedTakeoffLeavesNothing ==
    [][(fev'.op = "takeoff" /\ fev'.err # "none" /\ ~in_flight)
         => /\ ~in_flight'
            /\ Running(sm_threads') \subseteq Running(sm_threads)
            /\ Running(cm_threads') \subseteq Running(cm_threads)]_vars

\* ------------------------------------------------------------------------
\* Properties of the demonstration program (SpecDemo)
\* ------------------------------------------------------------------------

\* C8: while a discrete flight command sent by the main thread is in
\* progress on the link, no control cycle forwards an RC command to the link
\* through the command callback.
C8_OneAuthority ==
    [][CommandInProgress # None
         => ~(ev'.op = "cycle" /\ ev'.cmd # None /\ connected)]_vars

\* ------------------------------------------------------------------------
\* Properties of the flight data recorder (SpecRec)
\* ------------------------------------------------------------------------

\* C11: every row written to the session CSV has as many fields as the
\* header row, also when telemetry reads fail part-way through acquisition.
C11_RowMatchesHeader ==
    csv_row # NoRow => Len(csv_row) = Len(csv_headers)

\* ------------------------------------------------------------------------
\* Properties of the landing experiments (SpecLand)

\* the final controlled descent has returned on its tolerance or its timeout
FinalDescentEnded ==
    /\ descent_end \in {"tolerance", "timeout"}
    /\ (land_profile = "direct" \/ land_stage = FinalStage)

\* C12: in both landing profiles, once the final controlled descent has
\* returned, on its tolerance or on its time budget, the experiment goes on
\* to hand the land command to the link, and that is the last flight command
\* of the run.
C12_LandAfterDescent ==
    FinalDescentEnded ~> (land_pc = "finished" /\ last_link_cmd = "land")

C12_Witness ==
    /\ land_pc = "finished"
    /\ descent_end = "timeout"
    /\ last_link_cmd = "land"

\* C26: a run that has sent the takeoff command and flown on it has sent
\* land or emergency as its last command by the time the link is
\* disconnected.
C26_LandBeforeDisconnect ==
    (/\ land_pc = "finished"
     /\ ~land_link
     /\ last_link_cmd \notin {"none", "takeoff"})
        => last_link_cmd \in {"land", "emergency"}

\* ------------------------------------------------------------------------
\* Properties of the altitude experiment (SpecAlt)

\* C13: when a run that had taken off was ended by an interrupt or by an
\* exception, the first thing main's exit path does is the emergency stop: it
\* comes before the recorder is stopped, the report is written and the link
\* is closed.
C13_EmergencyBeforeCleanup ==
    (alt_pc = "exited" /\ alt_how \in {"interrupt", "exception"}
        /\ alt_flight_cmd)
        => (alt_log # <<>> /\ alt_log[1] = "emergency")

\* C14: however the run ended (success, failure, failed initialization,
\* interruption), once main has exited the recorder is stopped, the text
\* report is written and the link is closed.
C14_AlwaysFinalized ==
    (alt_pc = "exited"
        /\ alt_how \in {"success", "failure", "init_failed", "interrupt"})
        => (~alt_recording /\ alt_report /\ ~alt_link)

\* the validation rules, as the configuration file states them
BreaksRule(c) ==
    \/ c.cycles <= 0
    \/ c.target <= c.final
    \/ c.speed <= 0
    \/ c.hover < 0
    \/ c.target > 500
    \/ c.final < 5

\* C15: with a configuration that breaks a validation rule, no takeoff and
\* no other flight command is ever handed to the drone.
C15_InvalidConfigNeverFlies ==
    (alt_pc # "start" /\ BreaksRule(alt_cfg)) => ~alt_flight_cmd

C15_Witness ==
    /\ alt_pc = "exited"
    /\ alt_how = "init_failed"
    /\ BreaksRule(alt_cfg)
    /\ ~alt_flight_cmd

\* C16: the RC descent does not go on once the measured height has stayed
\* the same for one second: the loop is left (and the zero RC command sent)
\* in the pass that completes the second.
C16_StopsOnStall ==
    alt_pc = "rc_loop" => alt_unchanged < StallTicks

\* ------------------------------------------------------------------------
\* Properties of the interactive commander (SpecCli)

\* C17: when the shutdown sequence has already run once (in the signal
\* handler), running it again (in main's finally clause) stops no recording,
\* writes no media backup and no session report, updates no statistics and
\* closes no link a second time.
C17_ShutdownIdempotent ==
    cli_pc = "finally_again" =>
        \A land_ok \in BOOLEAN :
            LET again == shutdown(cli, land_ok)
            IN /\ again.rec_stops = cli.rec_stops
               /\ again.data_stops = cli.data_stops
               /\ again.backups = cli.backups
               /\ again.reports = cli.reports
               /\ again.stat_updates = cli.stat_updates
               /\ again.ends = cli.ends

\* ------------------------------------------------------------------------
\* Properties of the pre-flight gate (SpecGate)

\* a call of the gate whose battery probe answered above the critical level
GateCallHealthy ==
    /\ gate_call.called
    /\ gate_call.probe_ok
    /\ gate_call.batt > BATTERY_CRITICAL_THRESHOLD

\* C18: with the checks enabled and the battery above critical, the gate
\* passes a move of exactly the distance limit and raises the safety error
\* for the limit plus one; it passes a rotation of 360 degrees and raises for
\* a magnitude of 361.
C18_LimitsInclusive ==
    (ENABLE_SAFETY_CHECKS /\ GateCallHealthy) =>
        /\ (gate_call.command \in MoveCommands
              /\ gate_call.value = gate_call.speed_limit)
              => gate_call.result = "true"
        /\ (gate_call.command \in MoveCommands
              /\ gate_call.value = gate_call.speed_limit + 1)
              => gate_call.result = "safety"
        /\ (gate_call.command \in RotateCommands
              /\ Abs(gate_call.value) = 360)
              => gate_call.result = "true"
        /\ (gate_call.command \in RotateCommands
              /\ Abs(gate_call.value) = 361)
              => gate_call.result = "safety"

C18_Witness ==
    /\ GateCallHealthy
    /\ gate_call.command = "forward"
    /\ gate_call.value = gate_call.speed_limit
    /\ gate_call.result = "true"

\* C19: with the checks enabled and the link answering, the gate raises the
\* safety error for every ascent longer than the altitude limit, whatever the
\* altitude limit and the distance limit are.
C19_AscentAboveAltitudeLimit ==
    (ENABLE_SAFETY_CHECKS /\ gate_call.called /\ gate_call.probe_ok
        /\ gate_call.command = "up"
        /\ gate_call.value > gate_call.alt_limit)
        => gate_call.result = "safety"

\* ------------------------------------------------------------------------
\* Properties of compute_control (SpecCompute)

\* C20: compute_control of the attitude controller on a sample whose battery
\* is below 20 percent (15 for one) returns the all-zero command and leaves
\* the controller in EMERGENCY_STOP.
C20_LowBatteryStops ==
    (ctl_call.called /\ ctl_call.c = Att /\ ctl_call.battery_percent < 20)
        => (ctl_call.res = "zero" /\ ctl_call.state_after = EMERGENCY_STOP)

C20_Witness ==
    /\ ctl_call.called
    /\ ctl_call.c = Att
    /\ ctl_call.battery_percent = 15
    /\ ctl_call.res = "zero"
    /\ state[Att] = EMERGENCY_STOP

\* C21: compute_control of the position controller on a sample whose battery
\* is below 15 percent returns a command whose throttle is the configured
\* emergency descent rate.
C21_LowBatteryDescends ==
    (ctl_call.called /\ ctl_call.c = TrajInner /\ ctl_call.battery_percent < 15)
        => ctl_call.cmd.throttle = Float(emergency_descent_rate)

\* ------------------------------------------------------------------------
\* Properties of ControlCommand (SpecCommand)

InRange(x) == ~x.nan /\ 0 - 100 <= x.v /\ x.v <= 100

\* C23: every constructed ControlCommand has its four fields within
\* [-100, 100], and constructing a command again from the fields of a
\* constructed one changes nothing.
C23_ClampedAndIdempotent ==
    (ctl_call.called /\ ctl_call.c = "ControlCommand")
        => LET k == ctl_call.cmd
           IN /\ InRange(k.roll) /\ InRange(k.pitch)
              /\ InRange(k.throttle) /\ InRange(k.yaw)
              /\ ControlCommand(k.roll, k.pitch, k.throttle, k.yaw) = k

\* ------------------------------------------------------------------------
\* Properties of update_sensor_data (SpecSensor)

\* C22: a control cycle that reads a sensor sample reads one that every
\* registered sensor callback has already been given.
C22_CallbacksBeforeCache ==
    [][(ev'.op = "cycle" /\ is_running /\ latest_sensor_data # NoSensor)
         => \A i \in Callbacks : sensor_cb.given[i] = latest_sensor_data]_vars

\* ------------------------------------------------------------------------
\* Properties of a recording session (SpecSession)

\* C28: the worker's write call never meets a file that stop_recording has
\* closed (a video writer it has released).
C28_NoWriteAfterClose == session.last # "closed"

\* ------------------------------------------------------------------------
\* Properties of the controller life cycle (SpecCtl)
\* ------------------------------------------------------------------------
AllowedTransition(c) ==
    \/ state[c] = INACTIVE /\ state'[c] = ACTIVE
         /\ ev'.op = "activate" /\ ev'.ok
    \/ state[c] = ACTIVE /\ state'[c] = INACTIVE
         /\ ev'.op = "deactivate" /\ ev'.ok
    \/ state'[c] = ERROR
         /\ ev'.op \in {"activate", "deactivate", "update"} /\ ~ev'.ok
    \/ state'[c] = EMERGENCY_STOP /\ ev'.estop
    \/ state'[c] = INACTIVE /\ ev'.op = "reset"

\* C10: a controller's state changes only Inactive->Active on a successful
\* activate, Active->Inactive on a successful deactivate, any->Error on a
\* failure in activate, deactivate or update, any->EmergencyStop on
\* emergency_stop, any->Inactive on reset; activate in Error or
\* EmergencyStop fails and changes no state.
C10_Transitions ==
    [][ /\ \A c \in AllCtl : state'[c] # state[c] => AllowedTransition(c)
        /\ (ev'.op = "activate" /\ state[ev'.c] \in {ERROR, EMERGENCY_STOP})
             => (~ev'.ok /\ state' = state) ]_vars

C10_Witness ==
    /\ ev.op = "activate" /\ ~ev.ok
    /\ state[ev.c] = ERROR
    /\ \E d \in AllCtl : state[d] = EMERGENCY_STOP

====
